---- MODULE Spec2Model ----
(***************************************************************************)
(* Configuration templating of AIStack-MCP: the Template Engine            *)
(* (mcp_registry/templates.py) and the Config Builder's writer             *)
(* (scripts/mcp_config_builder.py).                                        *)
(*                                                                         *)
(* Text.  A Python str is a sequence of atoms.  An atom is a piece of text *)
(* that the substitution rules never split: the placeholder                *)
(* "${workspaceFolder}", a separator "/" or "\\", a path segment such as   *)
(* ".." or "AIStack-MCP", the brackets "${" and "}" of an env placeholder, *)
(* a drive "C:".  Substring search, replacement and os.path.normpath work  *)
(* on atoms exactly as the Python functions work on characters.            *)
(*                                                                         *)
(* Paths.  A pathlib.Path is the sequence of its segments below the root   *)
(* of an absolute, symlink-free file system; str() joins them with the     *)
(* separator of the platform.                                              *)
(***************************************************************************)
EXTENDS Integers, Sequences, FiniteSets, TLC

VARIABLES
    os_name,    \* "posix" or "nt": which os.path / pathlib flavour runs
    environ,    \* os.environ: variable name -> value, for the variables set
    tmpl,       \* the template handed to _build_mcp_config
    wsPath,     \* workspace_path
    rootPath,   \* aistack_path
    built,      \* what _build_mcp_config returned, NotBuilt before the call
    fs,         \* <workspace>/.cursor: the directory and its files
    clock,      \* datetime.now(), in seconds
    pc,         \* per invocation: the statement it is at
    call,       \* per invocation: its arguments and locals
    ret,        \* per invocation: what it returned or raised
    ncalls,     \* invocations started so far
    writeOrder, \* history: the invocations in the order they wrote mcp.json
    hist        \* history: the last completed apply_template run that wrote

----------------------------------------------------------------------------
(* Python str and dict primitives *)

EmptyDict == << >>

DictGet(d, k, default) == IF k \in DOMAIN d THEN d[k] ELSE default

DictSet(d, k, v) == [x \in (DOMAIN d) \cup {k} |-> IF x = k THEN v ELSE d[x]]

\* variant: the matched server is replaced by the override entry
DictUpdate_replace(d, o) == o

\* dict.update: every key of o is written over d, the other keys of d stay
DictUpdate(d, o) ==
    [x \in (DOMAIN d) \cup (DOMAIN o) |-> IF x \in DOMAIN o THEN o[x] ELSE d[x]]

StartsWith(s, p) == Len(s) >= Len(p) /\ SubSeq(s, 1, Len(p)) = p

EndsWith(s, p) == Len(s) >= Len(p) /\ SubSeq(s, Len(s) - Len(p) + 1, Len(s)) = p

\* `sub in s` for a non-empty sub
Contains(s, sub) ==
    \E i \in 1..(Len(s) - Len(sub) + 1) : SubSeq(s, i, i + Len(sub) - 1) = sub

\* str.replace(old, new): left to right, non-overlapping
RECURSIVE StrReplace(_, _, _)
StrReplace(s, old, new) ==
    IF Len(s) < Len(old) THEN s
    ELSE IF SubSeq(s, 1, Len(old)) = old
         THEN new \o StrReplace(SubSeq(s, Len(old) + 1, Len(s)), old, new)
         ELSE <<s[1]>> \o StrReplace(Tail(s), old, new)

\* str.split(sep) for a one-atom separator: the segments, empty ones included
RECURSIVE StrSplit(_, _)
StrSplit(s, sep) ==
    IF \A i \in 1..Len(s) : s[i] # sep THEN <<s>>
    ELSE LET k == CHOOSE i \in 1..Len(s) :
                      s[i] = sep /\ \A j \in 1..(i - 1) : s[j] # sep
         IN  <<SubSeq(s, 1, k - 1)>> \o StrSplit(SubSeq(s, k + 1, Len(s)), sep)

\* sep.join(comps)
RECURSIVE StrJoin(_, _)
StrJoin(comps, sep) ==
    IF Len(comps) = 0 THEN << >>
    ELSE IF Len(comps) = 1 THEN comps[1]
    ELSE comps[1] \o <<sep>> \o StrJoin(Tail(comps), sep)

\* s.lstrip(sep)
RECURSIVE LStrip(_, _)
LStrip(s, sep) ==
    IF Len(s) > 0 /\ s[1] = sep THEN LStrip(Tail(s), sep) ELSE s

----------------------------------------------------------------------------
(* os.path and pathlib *)

OsSep == IF os_name = "nt" THEN "\\" ELSE "/"

CURDIR == <<".">>
PARDIR == <<"..">>

\* the component loop shared by posixpath.normpath and ntpath.normpath:
\* rooted says whether ".." at the top is dropped
RECURSIVE CollapseComps(_, _, _)
CollapseComps(comps, new_comps, rooted) ==
    IF Len(comps) = 0 THEN new_comps
    ELSE LET comp == comps[1]
             rest == Tail(comps)
         IN  IF comp = << >> \/ comp = CURDIR
             THEN CollapseComps(rest, new_comps, rooted)
             ELSE IF comp # PARDIR
                     \/ (~rooted /\ Len(new_comps) = 0)
                     \/ (Len(new_comps) > 0 /\ new_comps[Len(new_comps)] = PARDIR)
             THEN CollapseComps(rest, Append(new_comps, comp), rooted)
             ELSE IF Len(new_comps) > 0
             THEN CollapseComps(rest, SubSeq(new_comps, 1, Len(new_comps) - 1), rooted)
             ELSE CollapseComps(rest, new_comps, rooted)

PosixNormpath(path) ==
    IF Len(path) = 0 THEN CURDIR
    ELSE LET initial_slashes ==
                 IF ~StartsWith(path, <<"/">>) THEN 0
                 ELSE IF StartsWith(path, <<"/", "/">>) /\ ~StartsWith(path, <<"/", "/", "/">>)
                      THEN 2 ELSE 1
             comps == CollapseComps(StrSplit(path, "/"), << >>, initial_slashes > 0)
             joined == [i \in 1..initial_slashes |-> "/"] \o StrJoin(comps, "/")
         IN  IF Len(joined) = 0 THEN CURDIR ELSE joined

\* ntpath.normpath of a path that is no UNC or device path (these start with
\* two separators): drive, then the collapsed components
NtNormpath(path) ==
    LET hasDrive == Len(path) > 0 /\ path[1] = "C:"
        drive == IF hasDrive THEN <<"C:">> ELSE << >>
        tail == IF hasDrive THEN Tail(path) ELSE path
        rooted == StartsWith(tail, <<"\\">>)
        prefix == IF rooted THEN drive \o <<"\\">> ELSE drive
        comps == CollapseComps(StrSplit(LStrip(tail, "\\"), "\\"), << >>, rooted)
    IN  IF Len(prefix) = 0 /\ Len(comps) = 0 THEN CURDIR
        ELSE prefix \o StrJoin(comps, "\\")

Normpath(path) == IF os_name = "nt" THEN NtNormpath(path) ELSE PosixNormpath(path)

ReplaceAtom(s, a, b) == [i \in 1..Len(s) |-> IF s[i] = a THEN b ELSE s[i]]

\* str(path): the segments joined by the platform's separator below the root
PathStr(p) ==
    IF os_name = "nt" THEN <<"C:", "\\">> \o StrJoin([i \in 1..Len(p) |-> <<p[i]>>], "\\")
    ELSE <<"/">> \o StrJoin([i \in 1..Len(p) |-> <<p[i]>>], "/")

\* Path.resolve(): ".." segments folded away (the root is its own parent)
RECURSIVE ResolveSegs(_, _)
ResolveSegs(p, acc) ==
    IF Len(p) = 0 THEN acc
    ELSE IF p[1] = ".."
         THEN ResolveSegs(Tail(p), IF Len(acc) = 0 THEN acc ELSE SubSeq(acc, 1, Len(acc) - 1))
         ELSE ResolveSegs(Tail(p), Append(acc, p[1]))

PathResolve(p) == ResolveSegs(p, << >>)

----------------------------------------------------------------------------
(* TemplateEngine: building the resolved configuration *)

WS_TOKEN == <<"${workspaceFolder}">>
COMPOUND_TOKEN == <<"${workspaceFolder}", "/", "..", "/", "AIStack-MCP">>
REL_TOKEN == <<"..", "/", "AIStack-MCP">>

\* variant: the compound token always becomes the path computed from the
\* workspace, also when workspace and root are the same directory
SubstPlaceholders_alwaysComputed(arg, workspace, aistack_path) ==
    IF Contains(arg, COMPOUND_TOKEN)
    THEN StrReplace(arg, COMPOUND_TOKEN,
                    PathStr(PathResolve(workspace \o <<"..", "AIStack-MCP">>)))
    ELSE IF Contains(arg, WS_TOKEN)
         THEN StrReplace(arg, WS_TOKEN, PathStr(workspace))
         ELSE arg

\* lines 237-247: the compound token, else the workspace token
SubstPlaceholders(arg, workspace, aistack_path) ==
    IF Contains(arg, COMPOUND_TOKEN)
    THEN IF PathResolve(workspace) = PathResolve(aistack_path)
         THEN StrReplace(arg, COMPOUND_TOKEN, PathStr(aistack_path))
         ELSE StrReplace(arg, COMPOUND_TOKEN,
                         PathStr(PathResolve(workspace \o <<"..", "AIStack-MCP">>)))
    ELSE IF Contains(arg, WS_TOKEN)
         THEN StrReplace(arg, WS_TOKEN, PathStr(workspace))
         ELSE arg

\* lines 249-251: a relative ../AIStack-MCP, when no workspace token is left
SubstRelative(arg, aistack_path) ==
    IF Contains(arg, REL_TOKEN) /\ ~Contains(arg, WS_TOKEN)
    THEN StrReplace(arg, REL_TOKEN, PathStr(aistack_path))
    ELSE arg

\* lines 253-257: normpath with the platform's separator, then forward slashes
NormalizeSeparators(arg) ==
    IF Contains(arg, <<OsSep>>) \/ Contains(arg, <<"/">>) \/ Contains(arg, <<"\\">>)
    THEN LET normalized == Normpath(ReplaceAtom(ReplaceAtom(arg, "/", OsSep), "\\", OsSep))
         IN  ReplaceAtom(normalized, "\\", "/")
    ELSE arg

BuildCustomArg(arg, workspace, aistack_path) ==
    NormalizeSeparators(
        SubstRelative(SubstPlaceholders(arg, workspace, aistack_path), aistack_path))

\* variant: os.environ.get(env_var, ""), an unset variable gives the empty text
ResolveEnvVars_emptyDefault(env_config) ==
    [key \in DOMAIN env_config |->
        LET value == env_config[key]
        IN  IF StartsWith(value, <<"${">>) /\ EndsWith(value, <<"}">>)
            THEN LET env_var == SubSeq(value, 2, Len(value) - 1)
                 IN  IF env_var \in DOMAIN environ THEN environ[env_var] ELSE << >>
            ELSE value]

ResolveEnvVars(env_config) ==
    [key \in DOMAIN env_config |->
        LET value == env_config[key]
        IN  IF StartsWith(value, <<"${">>) /\ EndsWith(value, <<"}">>)
            THEN LET env_var == SubSeq(value, 2, Len(value) - 1)
                 IN  IF env_var \in DOMAIN environ THEN environ[env_var] ELSE value
            ELSE value]

PyNone == [py |-> "None"]
PyStr(s) == [py |-> "str", s |-> s]

BuildCustomServer(server, workspace, aistack_path) ==
    LET base_config == DictGet(server, "config", EmptyDict)
        in_args == DictGet(base_config, "args", << >>)
        args == [i \in 1..Len(in_args) |-> BuildCustomArg(in_args[i], workspace, aistack_path)]
        config == [command |-> DictGet(base_config, "command", PyStr(<<"cmd">>)),
                   args |-> args]
    IN  IF "env" \in DOMAIN base_config
        THEN DictSet(config, "env", ResolveEnvVars(base_config["env"]))
        ELSE config

\* variant: arg.replace("${workspaceFolder}", str(workspace)) on every argument
BuildCommunityServer_substring(server, workspace) ==
    LET base_config == DictGet(server, "config", EmptyDict)
        in_args == DictGet(base_config, "args", << >>)
        args == [i \in 1..Len(in_args) |->
                    StrReplace(in_args[i], WS_TOKEN, PathStr(workspace))]
        config == [command |-> DictGet(base_config, "command", PyNone),
                   args |-> args]
    IN  IF "env" \in DOMAIN base_config
        THEN DictSet(config, "env", ResolveEnvVars(base_config["env"]))
        ELSE config

\* variant: the entry is written without its args
BuildCommunityServer_noArgs(server, workspace) ==
    [command |-> DictGet(DictGet(server, "config", EmptyDict), "command", PyNone)]

BuildCommunityServer(server, workspace) ==
    LET base_config == DictGet(server, "config", EmptyDict)
        in_args == DictGet(base_config, "args", << >>)
        args == [i \in 1..Len(in_args) |->
                    IF in_args[i] = WS_TOKEN THEN PathStr(workspace) ELSE in_args[i]]
        config == [command |-> DictGet(base_config, "command", PyNone),
                   args |-> args]
    IN  IF "env" \in DOMAIN base_config
        THEN DictSet(config, "env", ResolveEnvVars(base_config["env"]))
        ELSE config

RECURSIVE BuildServers(_, _, _, _)
BuildServers(servers, mcpServers, workspace, aistack_path) ==
    IF Len(servers) = 0 THEN mcpServers
    ELSE LET server == servers[1]
             server_type == DictGet(server, "type", "community")
             next == IF ~DictGet(server, "enabled", TRUE) THEN mcpServers
                     ELSE IF server_type = "custom"
                     THEN DictSet(mcpServers, server["name"],
                                  BuildCustomServer(server, workspace, aistack_path))
                     ELSE IF server_type = "community"
                     THEN DictSet(mcpServers, server["name"],
                                  BuildCommunityServer(server, workspace))
                     ELSE mcpServers
         IN  BuildServers(Tail(servers), next, workspace, aistack_path)

BuildMcpConfig(template, workspace, aistack_path) ==
    [mcpServers |-> BuildServers(DictGet(template, "servers", << >>), EmptyDict,
                                 workspace, aistack_path)]

----------------------------------------------------------------------------
(* Inputs of the builder: what a template can hold *)

MaxParts == 3
MaxArgs == 3

\* the pieces a custom server's argument is put together from
ArgParts ==
    { COMPOUND_TOKEN, WS_TOKEN, REL_TOKEN, <<"/">>, <<"\\">>, <<"..">>, <<"x">> }

RECURSIVE ArgsOfParts(_)
ArgsOfParts(n) ==
    IF n = 0 THEN { << >> }
    ELSE LET shorter == ArgsOfParts(n - 1)
         IN  shorter \cup { s \o part : s \in shorter, part \in ArgParts }

CustomArgChoices == ArgsOfParts(MaxParts)

CommunityArgChoices ==
    { <<"-y">>, <<"@x/server-filesystem">>, WS_TOKEN,
      <<"prefix-", "${workspaceFolder}">>, <<"${workspaceFolder}", "/", "sub">> }

RECURSIVE ListsUpTo(_, _)
ListsUpTo(S, n) ==
    IF n = 0 THEN { << >> }
    ELSE LET shorter == ListsUpTo(S, n - 1)
         IN  shorter \cup { Append(l, x) : l \in shorter, x \in S }

\* workspace and AIStack directories; the third is the first one spelled
\* with a ".." segment, which pathlib keeps
PathChoices == { <<"AIStack-MCP">>, <<"w">>, <<"w", "..", "AIStack-MCP">> }

EnvValueChoices ==
    { <<"${", "A", "}">>, <<"${", "B", "}">>, <<"plain">>, << >>, <<"${", "}">>,
      <<"${", "A", "}", "x">>, <<"${", "A", "}", "${", "B", "}">> }

EnvConfigChoices ==
    [{"K1"} -> EnvValueChoices] \cup [{"K1", "K2"} -> EnvValueChoices]

\* names a process environment can hold (POSIX allows any name without "=")
EnvNames == { <<"A">>, <<"B">>, <<"A", "}", "${", "B">> }

\* a variable that is set holds the empty string or some text
EnvSetValues == { << >>, <<"v">> }

EnvironChoices == UNION { [D -> EnvSetValues] : D \in SUBSET EnvNames }

OneServerTemplate(server) ==
    [name |-> "t", description |-> "d", servers |-> <<server>>]

NotBuilt == [status |-> "not built"]

\* ntpath reads a text that starts with two separators as a UNC or device
\* path; such arguments are left out on nt
NtUnc(arg) ==
    Len(arg) >= 2 /\ arg[1] \in {"/", "\\"} /\ arg[2] \in {"/", "\\"}

CustomInputs ==
    /\ os_name \in {"posix", "nt"}
    /\ wsPath \in PathChoices
    /\ rootPath \in PathChoices
    /\ environ = EmptyDict
    /\ \E arg \in CustomArgChoices :
          /\ os_name = "nt" => ~NtUnc(arg)
          /\ tmpl = OneServerTemplate(
                 [name |-> "intel", type |-> "custom",
                  config |-> [command |-> PyStr(<<"cmd">>), args |-> <<arg>>]])

CommunityInputs ==
    /\ os_name \in {"posix", "nt"}
    /\ wsPath \in PathChoices
    /\ rootPath = <<"AIStack-MCP">>
    /\ environ = EmptyDict
    /\ \E args \in ListsUpTo(CommunityArgChoices, MaxArgs) :
          tmpl = OneServerTemplate(
                 [name |-> "fs", type |-> "community",
                  config |-> [command |-> PyStr(<<"npx">>), args |-> args]])

EnvInputs ==
    /\ os_name = "posix"
    /\ wsPath = <<"w">>
    /\ rootPath = <<"AIStack-MCP">>
    /\ environ \in EnvironChoices
    /\ \E env \in EnvConfigChoices, type \in {"custom", "community"} :
          tmpl = OneServerTemplate(
                 [name |-> "srv", type |-> type,
                  config |-> [command |-> PyStr(<<"npx">>), args |-> << >>, env |-> env]])

----------------------------------------------------------------------------
(* TemplateEngine: the template store, overrides and root detection *)

Absent == [kind |-> "absent"]
EmptyFile == [kind |-> "empty"]
PartialFile == [kind |-> "partial"]

\* json.dumps(value, indent=2): the complete text of one JSON document
JsonDumps(value) == [kind |-> "json", indent |-> 2, value |-> value]

\* json.loads of a file's text: the value, or JSONDecodeError
JsonLoads(text) ==
    IF text.kind = "json" THEN [ok |-> TRUE, value |-> text.value]
    ELSE [ok |-> FALSE, exc |-> "JSONDecodeError"]

StandardTemplate ==
    [name |-> "standard", description |-> "d", version |-> "1.0.0",
     servers |-> <<
        [name |-> "code-intelligence", type |-> "custom", enabled |-> TRUE,
         config |-> [command |-> PyStr(<<"cmd">>),
                     args |-> << <<"/c">>, <<"python">>,
                                 COMPOUND_TOKEN \o <<"/", "mcp_intelligence_server.py">>,
                                 <<"--workspace">>, WS_TOKEN >>,
                     env |-> [OLLAMA_URL |-> <<"${", "OLLAMA_URL", "}">>,
                              QDRANT_URL |-> <<"${", "QDRANT_URL", "}">>]]],
        [name |-> "filesystem", type |-> "community",
         config |-> [command |-> PyStr(<<"npx">>),
                     args |-> << <<"-y">>, <<"@modelcontextprotocol/server-filesystem">>,
                                 WS_TOKEN >>]],
        [name |-> "github", type |-> "community", enabled |-> FALSE,
         requires_env |-> << <<"GITHUB_TOKEN">> >>] >>]

MineTemplate ==
    [name |-> "mine", description |-> "d",
     servers |-> <<
        [name |-> "git", type |-> "community",
         config |-> [command |-> PyStr(<<"npx">>),
                     args |-> << <<"-y">>, <<"@modelcontextprotocol/server-git">>,
                                 <<"--repository">>, WS_TOKEN >>]] >>]

TemplateNames == {"standard", "mine", "broken", "ghost"}

\* templates_dir/<name>.json
TemplatesDir ==
    [n \in TemplateNames |->
        IF n = "standard" THEN JsonDumps(StandardTemplate)
        ELSE IF n = "broken" THEN PartialFile
        ELSE Absent]

\* templates_dir/custom/<name>.json
CustomDir ==
    [n \in TemplateNames |-> IF n = "mine" THEN JsonDumps(MineTemplate) ELSE Absent]

\* variant: a template that cannot be loaded counts as one without servers
LoadTemplate_orEmpty(name) ==
    LET template_path == IF TemplatesDir[name] # Absent THEN TemplatesDir[name]
                         ELSE CustomDir[name]
    IN  IF template_path # Absent /\ JsonLoads(template_path).ok
        THEN [ok |-> TRUE, value |-> JsonLoads(template_path).value]
        ELSE [ok |-> TRUE, value |-> [name |-> name, servers |-> << >>]]

LoadTemplate(name) ==
    LET template_path == IF TemplatesDir[name] # Absent THEN TemplatesDir[name]
                         ELSE CustomDir[name]
    IN  IF template_path = Absent
        THEN [ok |-> FALSE, exc |-> "ValueError: Template not found"]
        ELSE IF JsonLoads(template_path).ok
        THEN [ok |-> TRUE, value |-> JsonLoads(template_path).value]
        ELSE [ok |-> FALSE, exc |-> "ValueError: Invalid template JSON"]

\* variant: an override entry that matches no server is added as a server
RECURSIVE UpdateFirstMatch_insert(_, _)
UpdateFirstMatch_insert(servers, override_server) ==
    IF Len(servers) = 0 THEN <<override_server>>
    ELSE IF servers[1]["name"] = override_server["name"]
         THEN <<DictUpdate(servers[1], override_server)>> \o Tail(servers)
         ELSE <<servers[1]>> \o UpdateFirstMatch_insert(Tail(servers), override_server)

\* the first template server with the override's name takes the override's keys
RECURSIVE UpdateFirstMatch(_, _)
UpdateFirstMatch(servers, override_server) ==
    IF Len(servers) = 0 THEN servers
    ELSE IF servers[1]["name"] = override_server["name"]
         THEN <<DictUpdate(servers[1], override_server)>> \o Tail(servers)
         ELSE <<servers[1]>> \o UpdateFirstMatch(Tail(servers), override_server)

RECURSIVE ApplyOverrideServers(_, _)
ApplyOverrideServers(servers, override_servers) ==
    IF Len(override_servers) = 0 THEN servers
    ELSE ApplyOverrideServers(UpdateFirstMatch(servers, override_servers[1]),
                              Tail(override_servers))

MergeOverrides(template, overrides) ==
    IF "servers" \in DOMAIN overrides
    THEN DictSet(template, "servers",
                 ApplyOverrideServers(template["servers"], overrides["servers"]))
    ELSE template

\* directories that hold mcp_intelligence_server.py
MarkerDirs == { <<"AIStack-MCP">> }

PathParent(p) == IF Len(p) = 0 THEN p ELSE SubSeq(p, 1, Len(p) - 1)

\* Path("C:/AIStack-MCP"): an absolute path on nt, one below cwd elsewhere
CommonPath(cwd) ==
    IF os_name = "nt" THEN <<"AIStack-MCP">> ELSE cwd \o <<"C:", "AIStack-MCP">>

DetectAistackPath(cwd) ==
    IF cwd \in MarkerDirs THEN cwd
    ELSE IF PathParent(cwd) \in MarkerDirs THEN PathParent(cwd)
    ELSE IF CommonPath(cwd) \in MarkerDirs THEN CommonPath(cwd)
    ELSE PathParent(cwd)

\* apply_template lines 136-151: everything done in memory
PreparedConfig(c) ==
    LET loaded == LoadTemplate(c.template_name)
        template == IF c.overrides # EmptyDict
                    THEN MergeOverrides(loaded.value, c.overrides)
                    ELSE loaded.value
        aistack_path == IF c.aistack_path = PyNone
                        THEN DetectAistackPath(c.cwd)
                        ELSE c.aistack_path.path
    IN  BuildMcpConfig(template, wsPath, aistack_path)

\* the ACTIVE_MODE.txt text
ModeText(template_name) ==
    [kind |-> "mode", template |-> template_name, applied |-> clock,
     workspace |-> PathStr(wsPath)]

----------------------------------------------------------------------------
(* Config Builder: the single-repo document handed to write_config *)

\* variant: the workspace path is written into the document
BuildSingleRepoConfig_resolved(workspace_path) ==
    [mcpServers |->
        ("code-intelligence" :>
            [command |-> PyStr(<<"cmd">>),
             args |-> << <<"/c">>, <<"python">>,
                         <<"${workspaceFolder}", "\\", "mcp_intelligence_server.py">>,
                         <<"--workspace">>, PathStr(workspace_path) >>,
             env |-> [OLLAMA_URL |-> <<"http://localhost:11434">>,
                      QDRANT_URL |-> <<"http://localhost:6333">>]])
        @@ ("filesystem" :>
            [command |-> PyStr(<<"npx">>),
             args |-> << <<"-y">>, <<"@modelcontextprotocol/server-filesystem">>,
                         PathStr(workspace_path) >>])
        @@ ("git" :>
            [command |-> PyStr(<<"npx">>),
             args |-> << <<"-y">>, <<"@modelcontextprotocol/server-git">>,
                         <<"--repository">>, PathStr(workspace_path) >>])]

BuildSingleRepoConfig(workspace_path) ==
    [mcpServers |->
        ("code-intelligence" :>
            [command |-> PyStr(<<"cmd">>),
             args |-> << <<"/c">>, <<"python">>,
                         <<"${workspaceFolder}", "\\", "mcp_intelligence_server.py">>,
                         <<"--workspace">>, WS_TOKEN >>,
             env |-> [OLLAMA_URL |-> <<"http://localhost:11434">>,
                      QDRANT_URL |-> <<"http://localhost:6333">>]])
        @@ ("filesystem" :>
            [command |-> PyStr(<<"npx">>),
             args |-> << <<"-y">>, <<"@modelcontextprotocol/server-filesystem">>,
                         WS_TOKEN >>])
        @@ ("git" :>
            [command |-> PyStr(<<"npx">>),
             args |-> << <<"-y">>, <<"@modelcontextprotocol/server-git">>,
                         <<"--repository">>, WS_TOKEN >>])]

\* a repository path: the parent directory and the parts of the directory
\* name (letters, spaces, dots, hyphens)
RepoPath(parent, name) == [parent |-> parent, name |-> name]

RECURSIVE JoinText(_)
JoinText(parts) ==
    IF Len(parts) = 0 THEN "" ELSE parts[1] \o JoinText(Tail(parts))

\* repo_path.name
PathName(repo_path) == JoinText(repo_path.name)

\* str(repo_path)
RepoPathStr(repo_path) == PathStr(repo_path.parent \o <<PathName(repo_path)>>)

\* str.lower() on a part of a name
LowerPart(c) ==
    IF c = "A" THEN "a" ELSE IF c = "B" THEN "b" ELSE IF c = "Repo" THEN "repo" ELSE c

\* line 119: repo_path.name.lower().replace(" ", "-").replace(".", "-")
SafeName(repo_path) ==
    JoinText([i \in 1..Len(repo_path.name) |->
                 LET c == LowerPart(repo_path.name[i])
                 IN  IF c = " " \/ c = "." THEN "-" ELSE c])

\* variant: the relative expression names the repository by its whole path
RepoPathExpr_wholePath(repo_path, use_relative_paths) ==
    IF use_relative_paths
    THEN <<"${workspaceFolder}", "/", "workspaces">>
         \o ReplaceAtom(RepoPathStr(repo_path), "\\", "/")
    ELSE ReplaceAtom(RepoPathStr(repo_path), "\\", "/")

\* lines 87-92 and 110-116: the path expression of a repository
RepoPathExpr(repo_path, use_relative_paths) ==
    IF use_relative_paths
    THEN <<"${workspaceFolder}", "/", "workspaces", "/", PathName(repo_path)>>
    ELSE ReplaceAtom(RepoPathStr(repo_path), "\\", "/")

\* lines 86-95: git_args
RECURSIVE GitArgs(_, _)
GitArgs(repo_paths, use_relative_paths) ==
    IF Len(repo_paths) = 0
    THEN << <<"-y">>, <<"@modelcontextprotocol/server-git">> >>
    ELSE GitArgs(SubSeq(repo_paths, 1, Len(repo_paths) - 1), use_relative_paths)
         \o << <<"--repository">>,
               RepoPathExpr(repo_paths[Len(repo_paths)], use_relative_paths) >>

\* lines 86-95: fs_args
RECURSIVE FsArgs(_, _)
FsArgs(repo_paths, use_relative_paths) ==
    IF Len(repo_paths) = 0
    THEN << <<"-y">>, <<"@modelcontextprotocol/server-filesystem">> >>
    ELSE FsArgs(SubSeq(repo_paths, 1, Len(repo_paths) - 1), use_relative_paths)
         \o << RepoPathExpr(repo_paths[Len(repo_paths)], use_relative_paths) >>

\* lines 110-135: the intelligence server of one repository
IntelligenceServer(core_path, repo_path, use_relative_paths) ==
    [command |-> PyStr(<<"cmd">>),
     args |-> << <<"/c">>, <<"python">>,
                 IF use_relative_paths
                 THEN <<"${workspaceFolder}", "\\", "mcp_intelligence_server.py">>
                 ELSE PathStr(core_path \o <<"mcp_intelligence_server.py">>),
                 <<"--workspace">>,
                 RepoPathExpr(repo_path, use_relative_paths) >>,
     env |-> [OLLAMA_URL |-> <<"http://localhost:11434">>,
              QDRANT_URL |-> <<"http://localhost:6333">>]]

IntelligenceName(repo_path) == "code-intelligence-" \o SafeName(repo_path)

\* lines 109-135: servers[...] = ... for each repository in turn
RECURSIVE IntelligenceServers(_, _, _, _)
IntelligenceServers(servers, core_path, repo_paths, use_relative_paths) ==
    IF Len(repo_paths) = 0 THEN servers
    ELSE IntelligenceServers(
            DictSet(servers, IntelligenceName(repo_paths[1]),
                    IntelligenceServer(core_path, repo_paths[1], use_relative_paths)),
            core_path, Tail(repo_paths), use_relative_paths)

\* variant: the git-multi entry is written without its command
BuildMultiRepoConfig_noCommand(core_path, repo_paths, use_relative_paths) ==
    [mcpServers |->
        IntelligenceServers(
            ("git-multi" :> [args |-> GitArgs(repo_paths, use_relative_paths)])
            @@ ("filesystem-multi" :> [command |-> PyStr(<<"npx">>),
                                       args |-> FsArgs(repo_paths, use_relative_paths)]),
            core_path, repo_paths, use_relative_paths)]

\* lines 68-137
BuildMultiRepoConfig(core_path, repo_paths, use_relative_paths) ==
    [mcpServers |->
        IntelligenceServers(
            ("git-multi" :> [command |-> PyStr(<<"npx">>),
                             args |-> GitArgs(repo_paths, use_relative_paths)])
            @@ ("filesystem-multi" :> [command |-> PyStr(<<"npx">>),
                                       args |-> FsArgs(repo_paths, use_relative_paths)]),
            core_path, repo_paths, use_relative_paths)]

----------------------------------------------------------------------------
(* State shared by the state machines *)

MaxClock == 2
MaxCalls == 2

Procs == {"p1", "p2"}

NoCall == [op |-> "none"]
NoRet == [status |-> "none"]
Returned(v) == [status |-> "returned", value |-> v]
Raised(e) == [status |-> "raised", exc |-> e]

NoHist == [op |-> "none"]

\* a workspace without .cursor
FreshFs ==
    [cursor |-> FALSE, mcp |-> Absent, backup |-> Absent, mode |-> Absent,
     stamped |-> [t \in 1..MaxClock |-> Absent]]

\* documents written before the runs considered begin
PriorDoc == JsonDumps([mcpServers |-> [old |-> [command |-> PyStr(<<"npx">>), args |-> << >>]]])
OlderDoc == JsonDumps([mcpServers |-> EmptyDict])

InitFsChoices ==
    { FreshFs,
      [FreshFs EXCEPT !.cursor = TRUE],
      [FreshFs EXCEPT !.cursor = TRUE, !.mcp = PriorDoc],
      [FreshFs EXCEPT !.cursor = TRUE, !.mcp = PriorDoc, !.backup = OlderDoc] }

vars == <<os_name, environ, tmpl, wsPath, rootPath, built,
          fs, clock, pc, call, ret, ncalls, writeOrder, hist>>

builderVars == <<os_name, environ, tmpl, wsPath, rootPath, built>>
diskVars == <<fs, clock, pc, call, ret, ncalls, writeOrder, hist>>

IdleDisk ==
    /\ fs = FreshFs
    /\ clock = 1
    /\ pc = [p \in Procs |-> "idle"]
    /\ call = [p \in Procs |-> NoCall]
    /\ ret = [p \in Procs |-> NoRet]
    /\ ncalls = 0
    /\ writeOrder = << >>
    /\ hist = NoHist

----------------------------------------------------------------------------
(* The builder as a state machine: inputs drawn, then _build_mcp_config *)

InitSubst ==
    /\ built = NotBuilt
    /\ (CustomInputs \/ CommunityInputs \/ EnvInputs)
    /\ IdleDisk

DoBuildMcpConfig ==
    /\ built = NotBuilt
    /\ built' = BuildMcpConfig(tmpl, wsPath, rootPath)
    /\ UNCHANGED <<os_name, environ, tmpl, wsPath, rootPath>>
    /\ UNCHANGED diskVars

NextSubst == DoBuildMcpConfig

SpecSubst == InitSubst /\ [][NextSubst]_vars

----------------------------------------------------------------------------
(* apply_template, statement by statement *)

GivenPath(p) == [py |-> "path", path |-> p]

ServerOverrides ==
    [servers |-> << [name |-> "filesystem", enabled |-> FALSE],
                    [name |-> "nosuch", type |-> "community"] >>]

ApplyArgs(template_name, dry_run, overrides, aistack_path, cwd) ==
    [template_name |-> template_name, dry_run |-> dry_run, overrides |-> overrides,
     aistack_path |-> aistack_path, cwd |-> cwd]

\* the invocations tried: each template, written and as a dry run, with and
\* without overrides, with the AIStack path given and detected from two cwds
ApplyChoices ==
    { ApplyArgs(t, d, EmptyDict, GivenPath(<<"AIStack-MCP">>), <<"w">>) :
          t \in {"standard", "mine", "broken", "ghost"}, d \in BOOLEAN }
    \cup { ApplyArgs("standard", d, ServerOverrides, GivenPath(<<"AIStack-MCP">>), <<"w">>) :
          d \in BOOLEAN }
    \cup { ApplyArgs("standard", FALSE, EmptyDict, PyNone, cwd) :
          cwd \in { <<"AIStack-MCP">>, <<"w">> } }

\* the process environment of the apply_template runs
DiskEnviron == (<<"OLLAMA_URL">> :> <<"http://localhost:11434">>)

InitDisk ==
    /\ os_name \in {"posix", "nt"}
    /\ environ = DiskEnviron
    /\ tmpl = EmptyDict
    /\ wsPath = <<"w">>
    /\ rootPath = <<"AIStack-MCP">>
    /\ built = NotBuilt
    /\ fs \in InitFsChoices
    /\ clock = 1
    /\ pc = [p \in Procs |-> "idle"]
    /\ call = [p \in Procs |-> NoCall]
    /\ ret = [p \in Procs |-> NoRet]
    /\ ncalls = 0
    /\ writeOrder = << >>
    /\ hist = NoHist

Params(c) ==
    [template_name |-> c.template_name, overrides |-> c.overrides,
     aistack_path |-> c.aistack_path, cwd |-> c.cwd]

WroteConfig(p) ==
    /\ pc[p] = "done"
    /\ call[p].op = "apply_template"
    /\ ret[p].status = "returned"
    /\ ~call[p].dry_run

Begin(p, template_name, dry_run, overrides, aistack_path, cwd) ==
    /\ pc[p] \in {"idle", "done"}
    /\ ncalls < MaxCalls
    /\ call' = [call EXCEPT ![p] =
                   [op |-> "apply_template", template_name |-> template_name,
                    dry_run |-> dry_run, overrides |-> overrides,
                    aistack_path |-> aistack_path, cwd |-> cwd,
                    pre |-> fs, mcp_config |-> NotBuilt]]
    /\ pc' = [pc EXCEPT ![p] = "load"]
    /\ ret' = [ret EXCEPT ![p] = NoRet]
    /\ ncalls' = ncalls + 1
    /\ writeOrder' = SelectSeq(writeOrder, LAMBDA q : q # p)
    /\ hist' = IF WroteConfig(p)
               THEN [op |-> "apply_template", params |-> Params(call[p]), fs |-> fs]
               ELSE hist
    /\ UNCHANGED <<fs, clock>>
    /\ UNCHANGED builderVars

\* line 136: load_template raises
RaiseOnLoad(p) ==
    /\ pc[p] = "load"
    /\ ~LoadTemplate(call[p].template_name).ok
    /\ ret' = [ret EXCEPT ![p] = Raised(LoadTemplate(call[p].template_name).exc)]
    /\ pc' = [pc EXCEPT ![p] = "done"]
    /\ UNCHANGED <<fs, clock, call, ncalls, writeOrder, hist>>
    /\ UNCHANGED builderVars

\* lines 136-151: load, merge, detect, build
BuildConfig(p) ==
    /\ pc[p] = "load"
    /\ LoadTemplate(call[p].template_name).ok
    /\ call' = [call EXCEPT ![p].mcp_config = PreparedConfig(call[p])]
    /\ pc' = [pc EXCEPT ![p] = "built"]
    /\ UNCHANGED <<fs, clock, ret, ncalls, writeOrder, hist>>
    /\ UNCHANGED builderVars

\* variant: the output directory is made before the dry-run return
ReturnDryRun_afterMkdir(p) ==
    /\ pc[p] = "built"
    /\ call[p].dry_run
    /\ fs' = [fs EXCEPT !.cursor = TRUE]
    /\ ret' = [ret EXCEPT ![p] = Returned(JsonDumps(call[p].mcp_config))]
    /\ pc' = [pc EXCEPT ![p] = "done"]
    /\ UNCHANGED <<clock, call, ncalls, writeOrder, hist>>
    /\ UNCHANGED builderVars

\* lines 153-154
ReturnDryRun(p) ==
    /\ pc[p] = "built"
    /\ call[p].dry_run
    /\ ret' = [ret EXCEPT ![p] = Returned(JsonDumps(call[p].mcp_config))]
    /\ pc' = [pc EXCEPT ![p] = "done"]
    /\ UNCHANGED <<fs, clock, call, ncalls, writeOrder, hist>>
    /\ UNCHANGED builderVars

\* lines 157-158: output_path.parent.mkdir(parents=True, exist_ok=True)
Mkdir(p) ==
    /\ pc[p] = "built"
    /\ ~call[p].dry_run
    /\ fs' = [fs EXCEPT !.cursor = TRUE]
    /\ pc' = [pc EXCEPT ![p] = "exists"]
    /\ UNCHANGED <<clock, call, ret, ncalls, writeOrder, hist>>
    /\ UNCHANGED builderVars

\* line 161: if output_path.exists()
CheckExists(p) ==
    /\ pc[p] = "exists"
    /\ pc' = [pc EXCEPT ![p] = IF fs.mcp # Absent THEN "bexists" ELSE "write"]
    /\ UNCHANGED <<fs, clock, call, ret, ncalls, writeOrder, hist>>
    /\ UNCHANGED builderVars

\* line 164: if backup_path.exists()
CheckBackupExists(p) ==
    /\ pc[p] = "bexists"
    /\ pc' = [pc EXCEPT ![p] = IF fs.backup # Absent THEN "unlink" ELSE "rename"]
    /\ UNCHANGED <<fs, clock, call, ret, ncalls, writeOrder, hist>>
    /\ UNCHANGED builderVars

\* line 165: backup_path.unlink()
UnlinkBackup(p) ==
    /\ pc[p] = "unlink"
    /\ IF fs.backup = Absent
       THEN /\ ret' = [ret EXCEPT ![p] = Raised("FileNotFoundError")]
            /\ pc' = [pc EXCEPT ![p] = "done"]
            /\ UNCHANGED fs
       ELSE /\ fs' = [fs EXCEPT !.backup = Absent]
            /\ pc' = [pc EXCEPT ![p] = "rename"]
            /\ UNCHANGED ret
    /\ UNCHANGED <<clock, call, ncalls, writeOrder, hist>>
    /\ UNCHANGED builderVars

\* variant: the old config is moved to a timestamped backup, as write_config
\* names its backups
RenameToBackup_stamped(p) ==
    /\ pc[p] = "rename"
    /\ IF fs.mcp = Absent
       THEN /\ ret' = [ret EXCEPT ![p] = Raised("FileNotFoundError")]
            /\ pc' = [pc EXCEPT ![p] = "done"]
            /\ UNCHANGED fs
       ELSE /\ fs' = [fs EXCEPT !.stamped[clock] = fs.mcp, !.mcp = Absent]
            /\ pc' = [pc EXCEPT ![p] = "write"]
            /\ UNCHANGED ret
    /\ UNCHANGED <<clock, call, ncalls, writeOrder, hist>>
    /\ UNCHANGED builderVars

\* line 166: output_path.rename(backup_path); os.rename replaces an existing
\* target on POSIX and raises FileExistsError on Windows
RenameToBackup(p) ==
    /\ pc[p] = "rename"
    /\ IF fs.mcp = Absent
       THEN /\ ret' = [ret EXCEPT ![p] = Raised("FileNotFoundError")]
            /\ pc' = [pc EXCEPT ![p] = "done"]
            /\ UNCHANGED fs
       ELSE IF fs.backup # Absent /\ os_name = "nt"
       THEN /\ ret' = [ret EXCEPT ![p] = Raised("FileExistsError")]
            /\ pc' = [pc EXCEPT ![p] = "done"]
            /\ UNCHANGED fs
       ELSE /\ fs' = [fs EXCEPT !.backup = fs.mcp, !.mcp = Absent]
            /\ pc' = [pc EXCEPT ![p] = "write"]
            /\ UNCHANGED ret
    /\ UNCHANGED <<clock, call, ncalls, writeOrder, hist>>
    /\ UNCHANGED builderVars

\* variant: exclusive creation, a config that is already there is kept
WriteConfig_keepExisting(p) ==
    /\ pc[p] = "write"
    /\ fs' = IF fs.mcp = Absent
             THEN [fs EXCEPT !.mcp = JsonDumps(call[p].mcp_config)]
             ELSE fs
    /\ writeOrder' = Append(writeOrder, p)
    /\ pc' = [pc EXCEPT ![p] = "mode"]
    /\ UNCHANGED <<clock, call, ret, ncalls, hist>>
    /\ UNCHANGED builderVars

\* variant: the document written carries the time it was generated at
WriteConfig_stamped(p) ==
    /\ pc[p] = "write"
    /\ fs' = [fs EXCEPT !.mcp =
                 JsonDumps(DictSet(call[p].mcp_config, "generated", clock))]
    /\ writeOrder' = Append(writeOrder, p)
    /\ pc' = [pc EXCEPT ![p] = "mode"]
    /\ UNCHANGED <<clock, call, ret, ncalls, hist>>
    /\ UNCHANGED builderVars

\* line 169: output_path.write_text(json.dumps(mcp_config, indent=2))
WriteConfig(p) ==
    /\ pc[p] = "write"
    /\ fs' = [fs EXCEPT !.mcp = JsonDumps(call[p].mcp_config)]
    /\ writeOrder' = Append(writeOrder, p)
    /\ pc' = [pc EXCEPT ![p] = "mode"]
    /\ UNCHANGED <<clock, call, ret, ncalls, hist>>
    /\ UNCHANGED builderVars

\* lines 173-178: the status sidecar, then return str(output_path)
WriteModeFile(p) ==
    /\ pc[p] = "mode"
    /\ fs' = [fs EXCEPT !.mode = ModeText(call[p].template_name)]
    /\ ret' = [ret EXCEPT ![p] =
                  Returned([kind |-> "path",
                            text |-> PathStr(wsPath \o <<".cursor", "mcp.json">>)])]
    /\ pc' = [pc EXCEPT ![p] = "done"]
    /\ UNCHANGED <<clock, call, ncalls, writeOrder, hist>>
    /\ UNCHANGED builderVars

\* write_text fails with OSError after open() truncated or created the file:
\* nothing, or only part of the text, reached it
WriteTextFails(p) ==
    /\ pc[p] \in {"write", "mode"}
    /\ \E left \in {EmptyFile, PartialFile} :
          fs' = IF pc[p] = "write" THEN [fs EXCEPT !.mcp = left]
                ELSE [fs EXCEPT !.mode = left]
    /\ ret' = [ret EXCEPT ![p] = Raised("OSError")]
    /\ pc' = [pc EXCEPT ![p] = "done"]
    /\ UNCHANGED <<clock, call, ncalls, writeOrder, hist>>
    /\ UNCHANGED builderVars

\* a second passes
Tick ==
    /\ clock < MaxClock
    /\ clock' = clock + 1
    /\ UNCHANGED <<fs, pc, call, ret, ncalls, writeOrder, hist>>
    /\ UNCHANGED builderVars

ApplySteps(p) ==
    \/ RaiseOnLoad(p)
    \/ BuildConfig(p)
    \/ ReturnDryRun(p)
    \/ Mkdir(p)
    \/ CheckExists(p)
    \/ CheckBackupExists(p)
    \/ UnlinkBackup(p)
    \/ RenameToBackup(p)
    \/ WriteConfig(p)
    \/ WriteModeFile(p)

\* one invocation after the other, in one process
SeqBegin ==
    \E a \in ApplyChoices :
        Begin("p1", a.template_name, a.dry_run, a.overrides, a.aistack_path, a.cwd)

Next ==
    \/ SeqBegin
    \/ ApplySteps("p1")
    \/ WriteTextFails("p1")
    \/ Tick

Spec == InitDisk /\ [][Next]_vars

\* two invocations, each in its own process, with no lock between them
RaceBegin(p) ==
    /\ pc[p] = "idle"
    /\ \E template_name \in {"standard", "mine", "ghost"}, dry_run \in BOOLEAN :
          Begin(p, template_name, dry_run, EmptyDict, GivenPath(rootPath), <<"w">>)

NextRace ==
    \E p \in Procs : RaceBegin(p) \/ ApplySteps(p)

SpecRace == InitDisk /\ [][NextRace]_vars

----------------------------------------------------------------------------
(* write_config of the Config Builder, statement by statement *)

WriteConfigChoices == { BuildSingleRepoConfig(wsPath) }

WcBegin(p, config, backup) ==
    /\ pc[p] \in {"idle", "done"}
    /\ ncalls < MaxCalls
    /\ call' = [call EXCEPT ![p] =
                   [op |-> "write_config", config |-> config, backup |-> backup,
                    pre |-> fs]]
    /\ pc' = [pc EXCEPT ![p] = "wc_exists"]
    /\ ret' = [ret EXCEPT ![p] = NoRet]
    /\ ncalls' = ncalls + 1
    /\ UNCHANGED <<fs, clock, writeOrder, hist>>
    /\ UNCHANGED builderVars

\* line 143: if output_path.exists() and backup
WcCheckExists(p) ==
    /\ pc[p] = "wc_exists"
    /\ pc' = [pc EXCEPT ![p] =
                 IF fs.mcp # Absent /\ call[p].backup THEN "wc_copy" ELSE "wc_mkdir"]
    /\ UNCHANGED <<fs, clock, call, ret, ncalls, writeOrder, hist>>
    /\ UNCHANGED builderVars

\* lines 144-146: shutil.copy2 to mcp.json.backup_<timestamp>, over any file
\* of that name
WcCopyBackup(p) ==
    /\ pc[p] = "wc_copy"
    /\ fs' = [fs EXCEPT !.stamped[clock] = fs.mcp]
    /\ pc' = [pc EXCEPT ![p] = "wc_mkdir"]
    /\ UNCHANGED <<clock, call, ret, ncalls, writeOrder, hist>>
    /\ UNCHANGED builderVars

\* line 149
WcMkdir(p) ==
    /\ pc[p] = "wc_mkdir"
    /\ fs' = [fs EXCEPT !.cursor = TRUE]
    /\ pc' = [pc EXCEPT ![p] = "wc_open"]
    /\ UNCHANGED <<clock, call, ret, ncalls, writeOrder, hist>>
    /\ UNCHANGED builderVars

\* line 151: open(output_path, 'w') creates the file or truncates it
WcOpen(p) ==
    /\ pc[p] = "wc_open"
    /\ fs' = [fs EXCEPT !.mcp = EmptyFile]
    /\ pc' = [pc EXCEPT ![p] = "wc_dump"]
    /\ UNCHANGED <<clock, call, ret, ncalls, writeOrder, hist>>
    /\ UNCHANGED builderVars

\* lines 152-155: json.dump writes the document into the open file, the with
\* block closes it, True is returned
WcDump(p) ==
    /\ pc[p] = "wc_dump"
    /\ fs' = [fs EXCEPT !.mcp = JsonDumps(call[p].config)]
    /\ ret' = [ret EXCEPT ![p] = Returned([kind |-> "bool", b |-> TRUE])]
    /\ pc' = [pc EXCEPT ![p] = "done"]
    /\ UNCHANGED <<clock, call, ncalls, writeOrder, hist>>
    /\ UNCHANGED builderVars

\* lines 156-158: an exception of the copy, the open or the dump is caught
\* and False returned; the file being written keeps what reached it
WcFails(p) ==
    /\ pc[p] \in {"wc_copy", "wc_open", "wc_dump"}
    /\ \/ UNCHANGED fs
       \/ /\ pc[p] = "wc_copy"
          /\ fs' = [fs EXCEPT !.stamped[clock] = PartialFile]
       \/ /\ pc[p] = "wc_dump"
          /\ fs' = [fs EXCEPT !.mcp = PartialFile]
    /\ ret' = [ret EXCEPT ![p] = Returned([kind |-> "bool", b |-> FALSE])]
    /\ pc' = [pc EXCEPT ![p] = "done"]
    /\ UNCHANGED <<clock, call, ncalls, writeOrder, hist>>
    /\ UNCHANGED builderVars

WcSteps(p) ==
    \/ WcCheckExists(p)
    \/ WcCopyBackup(p)
    \/ WcMkdir(p)
    \/ WcOpen(p)
    \/ WcDump(p)

WcStart ==
    \E config \in WriteConfigChoices, backup \in BOOLEAN : WcBegin("p1", config, backup)

NextBuilder ==
    \/ WcStart
    \/ WcSteps("p1")
    \/ WcFails("p1")
    \/ Tick

SpecBuilder == InitDisk /\ [][NextBuilder]_vars

----------------------------------------------------------------------------
(* _merge_overrides as a state machine: a loaded template, an override
   document, the merge, then the build from the merged template *)

MaxOverrides == 2

\* line 326-328: merged is a deep copy, so the caller's template object is
\* as it was when the call returns
MergeOverridesCall(template, overrides) ==
    [merged |-> MergeOverrides(template, overrides), template |-> template]

OverrideNames == {"filesystem", "code-intelligence", "git", "nosuch"}

OverrideFragments ==
    UNION { { [name |-> n],
              [name |-> n, enabled |-> FALSE],
              [name |-> n, enabled |-> TRUE, requires_env |-> << >>],
              [name |-> n, type |-> "community",
               config |-> [command |-> PyStr(<<"uvx">>), args |-> << <<"-q">> >>]] } :
            n \in OverrideNames }

OverrideChoices ==
    { [servers |-> l] : l \in ListsUpTo(OverrideFragments, MaxOverrides) }
    \cup { [note |-> <<"n">>] }

MergeTemplates == {StandardTemplate, MineTemplate}

InitMerge ==
    /\ os_name \in {"posix", "nt"}
    /\ environ = DiskEnviron
    /\ tmpl \in MergeTemplates
    /\ wsPath = <<"w">>
    /\ rootPath = <<"AIStack-MCP">>
    /\ built = NotBuilt
    /\ IdleDisk

MergeBegin(p, overrides) ==
    /\ pc[p] = "idle"
    /\ call' = [call EXCEPT ![p] =
                   [op |-> "_merge_overrides", template |-> tmpl, overrides |-> overrides]]
    /\ pc' = [pc EXCEPT ![p] = "merge"]
    /\ UNCHANGED <<fs, clock, ret, ncalls, writeOrder, hist>>
    /\ UNCHANGED builderVars

\* lines 324-342
DoMergeOverrides(p) ==
    /\ pc[p] = "merge"
    /\ LET r == MergeOverridesCall(tmpl, call[p].overrides)
       IN  /\ tmpl' = r.template
           /\ ret' = [ret EXCEPT ![p] = Returned(r.merged)]
    /\ pc' = [pc EXCEPT ![p] = "merged"]
    /\ UNCHANGED <<fs, clock, call, ncalls, writeOrder, hist>>
    /\ UNCHANGED <<os_name, environ, wsPath, rootPath, built>>

\* apply_template lines 139-151: the build takes the merged template
DoBuildMerged(p) ==
    /\ pc[p] = "merged"
    /\ built' = BuildMcpConfig(ret[p].value, wsPath, rootPath)
    /\ pc' = [pc EXCEPT ![p] = "done"]
    /\ UNCHANGED <<fs, clock, call, ret, ncalls, writeOrder, hist>>
    /\ UNCHANGED <<os_name, environ, tmpl, wsPath, rootPath>>

NextMerge ==
    \/ \E overrides \in OverrideChoices : MergeBegin("p1", overrides)
    \/ DoMergeOverrides("p1")
    \/ DoBuildMerged("p1")

SpecMerge == InitMerge /\ [][NextMerge]_vars

----------------------------------------------------------------------------
(* validate_template as a state machine: the files a template name resolves
   to, the validation, then the build of an accepted template *)

MaxServers == 2

\* load_template lines 91-105, on the file templates_dir/<name>.json and the
\* file templates_dir/custom/<name>.json
LoadTemplateFiles(template_file, custom_file) ==
    LET template_path == IF template_file # Absent THEN template_file ELSE custom_file
    IN  IF template_path = Absent
        THEN [ok |-> FALSE, exc |-> "ValueError: Template not found"]
        ELSE IF JsonLoads(template_path).ok
        THEN [ok |-> TRUE, value |-> JsonLoads(template_path).value]
        ELSE [ok |-> FALSE, exc |-> "ValueError: Invalid template JSON"]

\* variant: config is required of every server, enabled or not
RECURSIVE ValidateServers_configAlways(_)
ValidateServers_configAlways(servers) ==
    IF Len(servers) = 0 THEN TRUE
    ELSE LET server == servers[1]
         IN  IF "name" \notin DOMAIN server THEN FALSE
             ELSE IF "type" \notin DOMAIN server THEN FALSE
             ELSE IF "config" \notin DOMAIN server THEN FALSE
             ELSE ValidateServers_configAlways(Tail(servers))

\* lines 397-407: the loop over template["servers"]
RECURSIVE ValidateServers(_)
ValidateServers(servers) ==
    IF Len(servers) = 0 THEN TRUE
    ELSE LET server == servers[1]
         IN  IF "name" \notin DOMAIN server THEN FALSE
             ELSE IF "type" \notin DOMAIN server THEN FALSE
             ELSE IF "config" \notin DOMAIN server /\ DictGet(server, "enabled", TRUE)
             THEN FALSE
             ELSE ValidateServers(Tail(servers))

\* lines 387-413: False for a template that does not load (the exception is
\* caught), for a missing required field, for a server the loop rejects
ValidateTemplate(template_file, custom_file) ==
    LET loaded == LoadTemplateFiles(template_file, custom_file)
    IN  IF ~loaded.ok THEN FALSE
        ELSE IF \E field \in {"name", "description", "servers"} :
                    field \notin DOMAIN loaded.value
        THEN FALSE
        ELSE ValidateServers(loaded.value["servers"])

Restrict(d, keys) == [k \in (DOMAIN d \cap keys) |-> d[k]]

CommunityServerSpec ==
    [name |-> "fs", type |-> "community", enabled |-> TRUE,
     config |-> [command |-> PyStr(<<"npx">>), args |-> << <<"-y">>, WS_TOKEN >>]]

\* server entries of a template file: the full entry and the entry without
\* one of its fields, with enabled true, absent and false, and entries whose
\* config gives no command
ServerSpecChoices ==
    { Restrict(CommunityServerSpec, {"name", "type", "enabled", "config"} \ ks) :
          ks \in { {}, {"name"}, {"type"}, {"config"}, {"enabled"}, {"enabled", "config"} } }
    \cup { Restrict([CommunityServerSpec EXCEPT !.enabled = FALSE],
                    {"name", "type", "enabled", "config"} \ ks) :
              ks \in { {}, {"name"}, {"type"}, {"config"} } }
    \cup { [name |-> "bare", type |-> "community", config |-> [args |-> << <<"-y">> >>]],
           [name |-> "intel", type |-> "custom", config |-> [args |-> << <<"/c">> >>]] }

TemplateDocChoices ==
    { [name |-> "t", description |-> "d"] }
    \cup UNION { { [name |-> "t", description |-> "d", servers |-> l],
                   [name |-> "t", servers |-> l],
                   [description |-> "d", servers |-> l] } :
                 l \in ListsUpTo(ServerSpecChoices, MaxServers) }

TemplateFileChoices ==
    { [template_file |-> JsonDumps(d), custom_file |-> Absent] : d \in TemplateDocChoices }
    \cup { [template_file |-> Absent, custom_file |-> Absent],
           [template_file |-> PartialFile, custom_file |-> JsonDumps(MineTemplate)],
           [template_file |-> Absent, custom_file |-> JsonDumps(MineTemplate)],
           [template_file |-> Absent, custom_file |-> EmptyFile] }

InitValidate ==
    /\ os_name \in {"posix", "nt"}
    /\ environ = DiskEnviron
    /\ tmpl \in TemplateFileChoices
    /\ wsPath = <<"w">>
    /\ rootPath = <<"AIStack-MCP">>
    /\ built = NotBuilt
    /\ IdleDisk

\* validate_template(name), lines 377-413
DoValidateTemplate(p) ==
    /\ pc[p] = "idle"
    /\ call' = [call EXCEPT ![p] = [op |-> "validate_template"]]
    /\ ret' = [ret EXCEPT ![p] =
                  Returned([kind |-> "bool",
                            b |-> ValidateTemplate(tmpl.template_file, tmpl.custom_file)])]
    /\ pc' = [pc EXCEPT ![p] = "validated"]
    /\ UNCHANGED <<fs, clock, ncalls, writeOrder, hist>>
    /\ UNCHANGED builderVars

\* apply_template lines 136-151 for a template that was accepted
DoBuildValidated(p) ==
    /\ pc[p] = "validated"
    /\ ret[p].value.b
    /\ built' = BuildMcpConfig(LoadTemplateFiles(tmpl.template_file, tmpl.custom_file).value,
                               wsPath, rootPath)
    /\ pc' = [pc EXCEPT ![p] = "done"]
    /\ UNCHANGED <<fs, clock, call, ret, ncalls, writeOrder, hist>>
    /\ UNCHANGED <<os_name, environ, tmpl, wsPath, rootPath>>

NextValidate ==
    \/ DoValidateTemplate("p1")
    \/ DoBuildValidated("p1")

SpecValidate == InitValidate /\ [][NextValidate]_vars

----------------------------------------------------------------------------
(* The validator: parsed JSON values and the three validation passes *)

\* what json.load returns: dict, list, str or None
JObj(d) == [t |-> "dict", d |-> d]
JArr(l) == [t |-> "list", l |-> l]
JText(s) == [t |-> "str", s |-> s]
JNull == [t |-> "null"]

\* json.load of what json.dump wrote for one server entry of a builder
ServerTree(server) ==
    JObj([f \in DOMAIN server |->
            IF f = "command"
            THEN (IF server[f] = PyNone THEN JNull ELSE JText(server[f].s))
            ELSE IF f = "args"
            THEN JArr([i \in 1..Len(server[f]) |-> JText(server[f][i])])
            ELSE IF f = "env"
            THEN JObj([e \in DOMAIN server[f] |-> JText(server[f][e])])
            ELSE JNull])

\* json.load of what json.dump wrote for a document {"mcpServers": {...}}
ConfigTree(doc) ==
    JObj([k \in DOMAIN doc |->
            JObj([name \in DOMAIN doc[k] |-> ServerTree(doc[k][name])])])

\* a file holding the text of any JSON value
JsonTextFile(tree) == [kind |-> "jsontext", tree |-> tree]

\* lines 152-155: json.load(f), or JSONDecodeError
JsonLoad(file) ==
    IF file.kind = "json" THEN [ok |-> TRUE, value |-> ConfigTree(file.value)]
    ELSE IF file.kind = "jsontext" THEN [ok |-> TRUE, value |-> file.tree]
    ELSE [ok |-> FALSE, exc |-> "JSONDecodeError"]

\* ValidationError(level, message, path)
Finding(level, message, path) == [level |-> level, message |-> message, path |-> path]

\* lines 49-64; the findings of a pass are kept as a set
ValidateJsonStructure(config) ==
    IF config.t # "dict" \/ "mcpServers" \notin DOMAIN config.d
    THEN {Finding("error", "Missing 'mcpServers' key", "")}
    ELSE IF config.d["mcpServers"].t # "dict"
    THEN {Finding("error", "'mcpServers' must be an object", "")}
    ELSE IF DOMAIN config.d["mcpServers"].d = {}
    THEN {Finding("warning", "No MCP servers defined", "")}
    ELSE {}

\* directory names of the repositories considered
RepoNameChoices ==
    { <<"a">>, <<"A">>, <<"b">>, <<"a", ".", "b">>, <<"a", "-", "b">>, <<"Repo", " ", "a">> }

\* the names of the servers considered that contain the word when lowercased
NamesWith(word) ==
    IF word = "workspace" THEN {}
    ELSE IF word \in {"intelligence", "code-intelligence"}
    THEN {"code-intelligence"}
         \cup { IntelligenceName(RepoPath(<<"p">>, n)) : n \in RepoNameChoices }
    ELSE {}

\* word in name.lower()
NameHas(name, word) == name \in NamesWith(word)

\* line 87-88: "${workspaceFolder}" in " ".join(str(a) for a in args)
ArgsHoldToken(args) ==
    /\ args.t = "list"
    /\ \E i \in 1..Len(args.l) :
          args.l[i].t = "str" /\ Contains(args.l[i].s, WS_TOKEN)

\* lines 67-109, for a server that is a dict
ValidateServerConfig(name, server) ==
    LET d == server.d
        args == IF "args" \in DOMAIN d THEN d["args"] ELSE JArr(<< >>)
    IN  (IF "command" \notin DOMAIN d
         THEN {Finding("error", "Missing 'command' field", name)} ELSE {})
        \cup (IF "args" \notin DOMAIN d
              THEN {Finding("error", "Missing 'args' field", name)}
              ELSE IF d["args"].t # "list"
              THEN {Finding("error", "'args' must be an array", name)}
              ELSE {})
        \cup (IF "command" \in DOMAIN d /\ d["command"] = JText(<<"python">>)
              THEN {Finding("warning", "Use 'cmd /c python' on Windows", name)}
              ELSE {})
        \cup (IF ~ArgsHoldToken(args)
                 /\ (NameHas(name, "workspace") \/ NameHas(name, "intelligence"))
              THEN {Finding("info", "Consider using ${workspaceFolder}", name)}
              ELSE {})
        \cup (IF "env" \notin DOMAIN d THEN {}
              ELSE IF d["env"].t # "dict"
              THEN {Finding("error", "'env' must be an object", name)}
              ELSE IF ~NameHas(name, "code-intelligence") THEN {}
              ELSE (IF "OLLAMA_URL" \notin DOMAIN d["env"].d
                    THEN {Finding("warning", "Missing OLLAMA_URL", name)} ELSE {})
                   \cup (IF "QDRANT_URL" \notin DOMAIN d["env"].d
                         THEN {Finding("warning", "Missing QDRANT_URL", name)} ELSE {}))

\* the exception validate_server_config ends in, if any: a server that is no
\* dict has no get (or, None, supports no "in"); args None cannot be iterated
ServerRaises(server) ==
    IF server.t = "null" THEN "TypeError"
    ELSE IF server.t # "dict" THEN "AttributeError"
    ELSE IF "args" \in DOMAIN server.d /\ server.d["args"].t = "null" THEN "TypeError"
    ELSE "none"

\* lines 112-139, on config.get("mcpServers", {})
ValidateModeConsistency(servers) ==
    LET has_multi_git == "git-multi" \in DOMAIN servers
        has_multi_fs == "filesystem-multi" \in DOMAIN servers
        has_single_git == "git" \in DOMAIN servers
        has_single_fs == "filesystem" \in DOMAIN servers
        intelligence_servers == { k \in DOMAIN servers : NameHas(k, "intelligence") }
    IN  (IF has_multi_git /\ has_single_git
         THEN {Finding("warning", "Both 'git' and 'git-multi' defined - possible mode conflict", "")}
         ELSE {})
        \cup (IF has_multi_fs /\ has_single_fs
              THEN {Finding("warning", "Both 'filesystem' and 'filesystem-multi' defined - possible mode conflict", "")}
              ELSE {})
        \cup (IF (has_multi_git \/ has_multi_fs)
                 /\ intelligence_servers = {"code-intelligence"}
              THEN {Finding("info", "Multi-repo mode detected but only one intelligence server", "")}
              ELSE {})

\* variant: a warning counts as an error
HasErrors_countsWarnings(all_errors) ==
    \E e \in all_errors : e.level \in {"error", "warning"}

\* line 168
HasErrors(all_errors) == \E e \in all_errors : e.level = "error"

ValidateReturned(passed, errors) ==
    [status |-> "returned", passed |-> passed, errors |-> errors]
ValidateRaised(excs) == [status |-> "raised", excs |-> excs]

\* lines 142-170: the verdict and the findings, or the exceptions the call
\* can end in
ValidateConfigFile(file) ==
    IF file = Absent
    THEN ValidateReturned(FALSE, {Finding("error", "Config file not found", "")})
    ELSE IF ~JsonLoad(file).ok
    THEN ValidateReturned(FALSE, {Finding("error", "Invalid JSON", "")})
    ELSE LET config == JsonLoad(file).value
         IN  IF config.t = "null" THEN ValidateRaised({"TypeError"})
             ELSE IF config.t # "dict" THEN ValidateRaised({"AttributeError"})
             ELSE LET servers == IF "mcpServers" \in DOMAIN config.d
                                 THEN config.d["mcpServers"] ELSE JObj(<< >>)
                  IN  IF servers.t # "dict" THEN ValidateRaised({"AttributeError"})
                      ELSE LET excs == { ServerRaises(servers.d[n]) : n \in DOMAIN servers.d }
                                            \ {"none"}
                               all_errors ==
                                   ValidateJsonStructure(config)
                                   \cup UNION { ValidateServerConfig(n, servers.d[n]) :
                                                   n \in DOMAIN servers.d }
                                   \cup ValidateModeConsistency(servers.d)
                           IN  IF excs # {} THEN ValidateRaised(excs)
                               ELSE ValidateReturned(~HasErrors(all_errors), all_errors)

\* main lines 301-316: the verdict after --strict and the exit code
MainVerdict(passed, errors, strict, exit_code) ==
    LET warning_count == Cardinality({ e \in errors : e.level = "warning" })
        promoted == strict /\ warning_count > 0
        passed2 == IF promoted THEN FALSE ELSE passed
        exit_code2 == IF promoted THEN 1 ELSE exit_code
    IN  [passed |-> passed2,
         exit_code |-> IF passed2 /\ exit_code2 = 0 THEN 0 ELSE 1]

----------------------------------------------------------------------------
(* The config builder as a state machine: a document is generated, written
   with write_config and validated from the file *)

MaxRepos == 2

RepoChoices ==
    { RepoPath(<<"p">>, n) : n \in RepoNameChoices } \cup { RepoPath(<<"q">>, <<"a">>) }

CoreChoices == { <<"core">>, <<"AIStack-MCP">> }

\* lines 29-65
GenSingle(p, workspace_path) ==
    /\ pc[p] = "idle"
    /\ built = NotBuilt
    /\ built' = BuildSingleRepoConfig(workspace_path)
    /\ call' = [call EXCEPT ![p] =
                   [op |-> "build_single_repo_config", workspace_path |-> workspace_path]]
    /\ pc' = [pc EXCEPT ![p] = "done"]
    /\ UNCHANGED <<fs, clock, ret, ncalls, writeOrder, hist>>
    /\ UNCHANGED <<os_name, environ, tmpl, wsPath, rootPath>>

\* lines 68-137
GenMulti(p, core_path, repo_paths, use_relative_paths) ==
    /\ pc[p] = "idle"
    /\ built = NotBuilt
    /\ built' = BuildMultiRepoConfig(core_path, repo_paths, use_relative_paths)
    /\ call' = [call EXCEPT ![p] =
                   [op |-> "build_multi_repo_config", core_path |-> core_path,
                    repo_paths |-> repo_paths,
                    use_relative_paths |-> use_relative_paths]]
    /\ pc' = [pc EXCEPT ![p] = "done"]
    /\ UNCHANGED <<fs, clock, ret, ncalls, writeOrder, hist>>
    /\ UNCHANGED <<os_name, environ, tmpl, wsPath, rootPath>>

\* write_config(config, output_path, backup) with the document generated
GenWrite(p) ==
    /\ built # NotBuilt
    /\ pc[p] = "idle"
    /\ \E backup \in BOOLEAN : WcBegin(p, built, backup)

\* validate_config_file(config_path) on the file written
GenValidate(p) ==
    /\ pc[p] = "done"
    /\ call[p].op = "write_config"
    /\ LET r == ValidateConfigFile(fs.mcp)
       IN  IF r.status = "raised"
           THEN \E e \in r.excs : ret' = [ret EXCEPT ![p] = Raised(e)]
           ELSE ret' = [ret EXCEPT ![p] =
                           Returned([kind |-> "verdict", passed |-> r.passed,
                                     errors |-> r.errors])]
    /\ call' = [call EXCEPT ![p] = [op |-> "validate_config_file", pre |-> fs]]
    /\ pc' = [pc EXCEPT ![p] = "validated"]
    /\ UNCHANGED <<fs, clock, ncalls, writeOrder, hist>>
    /\ UNCHANGED builderVars

NextGen ==
    \/ \E workspace_path \in PathChoices : GenSingle("p2", workspace_path)
    \/ \E core_path \in CoreChoices, repo_paths \in ListsUpTo(RepoChoices, MaxRepos),
          use_relative_paths \in BOOLEAN :
          GenMulti("p2", core_path, repo_paths, use_relative_paths)
    \/ GenWrite("p1")
    \/ WcSteps("p1")
    \/ GenValidate("p1")

SpecGen == InitDisk /\ [][NextGen]_vars

----------------------------------------------------------------------------
(* The validator's main as a state machine: a config file of any content,
   validate_config_file, then the summary *)

MaxDocServers == 2

GoodServer ==
    JObj([command |-> JText(<<"npx">>),
          args |-> JArr(<<JText(<<"-y">>), JText(WS_TOKEN)>>)])

ServerTreeChoices ==
    { GoodServer,
      JObj([args |-> JArr(<<JText(<<"-y">>)>>)]),
      JObj([command |-> JText(<<"npx">>)]),
      JObj([command |-> JText(<<"npx">>), args |-> JText(<<"-y">>)]),
      JObj([command |-> JText(<<"npx">>), args |-> JNull]),
      JObj([command |-> JText(<<"python">>), args |-> JArr(<< >>)]),
      JObj([command |-> JText(<<"cmd">>), args |-> JArr(<<JText(WS_TOKEN)>>),
            env |-> JArr(<< >>)]),
      JObj([command |-> JText(<<"cmd">>), args |-> JArr(<<JText(WS_TOKEN)>>),
            env |-> JObj([OLLAMA_URL |-> JText(<<"http://localhost:11434">>)])]),
      JArr(<< >>) }

ConfigServerNames ==
    {"git", "git-multi", "filesystem", "filesystem-multi", "code-intelligence"}

ConfigTreeChoices ==
    { JObj([mcpServers |-> JObj(servers)]) :
        servers \in UNION { [names -> ServerTreeChoices] :
                              names \in { n \in SUBSET ConfigServerNames :
                                             Cardinality(n) <= MaxDocServers } } }
    \cup { JObj(<< >>), JObj([servers |-> JObj(<< >>)]),
           JObj([mcpServers |-> JArr(<< >>)]), JObj([mcpServers |-> JNull]),
           JObj([mcpServers |-> JText(<<"x">>)]), JArr(<< >>), JNull }

ConfigFileChoices ==
    { JsonTextFile(tree) : tree \in ConfigTreeChoices }
    \cup { Absent, EmptyFile, PartialFile, JsonDumps(BuildSingleRepoConfig(<<"w">>)) }

InitValidator ==
    /\ os_name \in {"posix", "nt"}
    /\ environ = DiskEnviron
    /\ tmpl = EmptyDict
    /\ wsPath = <<"w">>
    /\ rootPath = <<"AIStack-MCP">>
    /\ built = NotBuilt
    /\ \E file \in ConfigFileChoices : fs = [FreshFs EXCEPT !.cursor = TRUE, !.mcp = file]
    /\ clock = 1
    /\ pc = [p \in Procs |-> "idle"]
    /\ call = [p \in Procs |-> NoCall]
    /\ ret = [p \in Procs |-> NoRet]
    /\ ncalls = 0
    /\ writeOrder = << >>
    /\ hist = NoHist

\* main lines 255-286: the arguments; with --test-generation the exit code
\* is 1 when the generation test did not pass
MainBegin(p, strict, test_generation, generation_passed) ==
    /\ pc[p] = "idle"
    /\ call' = [call EXCEPT ![p] =
                   [op |-> "main", strict |-> strict,
                    test_generation |-> test_generation,
                    exit_code |-> IF test_generation /\ ~generation_passed THEN 1 ELSE 0]]
    /\ pc' = [pc EXCEPT ![p] = "v_file"]
    /\ UNCHANGED <<fs, clock, ret, ncalls, writeOrder, hist>>
    /\ UNCHANGED builderVars

\* main line 292: passed, errors = validate_config_file(config_path); an
\* exception of the call ends main
MainValidate(p) ==
    /\ pc[p] = "v_file"
    /\ LET r == ValidateConfigFile(fs.mcp)
       IN  IF r.status = "raised"
           THEN /\ \E e \in r.excs : ret' = [ret EXCEPT ![p] = Raised(e)]
                /\ pc' = [pc EXCEPT ![p] = "done"]
                /\ UNCHANGED call
           ELSE /\ call' = [call EXCEPT ![p] =
                               DictSet(DictSet(call[p], "passed", r.passed),
                                       "errors", r.errors)]
                /\ pc' = [pc EXCEPT ![p] = "v_summary"]
                /\ UNCHANGED ret
    /\ UNCHANGED <<fs, clock, ncalls, writeOrder, hist>>
    /\ UNCHANGED builderVars

\* main lines 301-319: sys.exit(exit_code)
MainExit(p) ==
    /\ pc[p] = "v_summary"
    /\ LET v == MainVerdict(call[p]["passed"], call[p]["errors"],
                            call[p]["strict"], call[p]["exit_code"])
       IN  ret' = [ret EXCEPT ![p] =
                      Returned([kind |-> "exit", passed |-> v.passed,
                                exit_code |-> v.exit_code])]
    /\ pc' = [pc EXCEPT ![p] = "done"]
    /\ UNCHANGED <<fs, clock, call, ncalls, writeOrder, hist>>
    /\ UNCHANGED builderVars

NextValidator ==
    \/ \E strict \in BOOLEAN, test_generation \in BOOLEAN, generation_passed \in BOOLEAN :
          MainBegin("p1", strict, test_generation, generation_passed)
    \/ MainValidate("p1")
    \/ MainExit("p1")

SpecValidator == InitValidator /\ [][NextValidator]_vars

----------------------------------------------------------------------------
(* Claims about the files under .cursor *)

\* C1: whatever file is at .cursor/mcp.json is, in every reachable state of
\* write_config (and of apply_template), a complete JSON document, the prior
\* one or the new one, never an empty or partial one.
C1_ConfigFileAlwaysComplete ==
    fs.mcp.kind \in {"absent", "json"}

BackupFiles(f) ==
    (IF f.backup # Absent THEN {"mcp.json.backup"} ELSE {})
    \cup { t \in 1..MaxClock : f.stamped[t] # Absent }

\* C2: in a sequence of apply_template runs at most one backup file exists;
\* a run that found an mcp.json and returned leaves exactly that former
\* content in mcp.json.backup, whatever backup there was before; and within
\* a run the old config is moved away before the new one is written, and the
\* new one is written before the status sidecar.
C2_SingleSlotBackup ==
    LET c == call["p1"]
    IN  /\ Cardinality(BackupFiles(fs)) <= 1
        /\ (c.op = "apply_template" /\ c.pre.mcp # Absent) =>
              /\ pc["p1"] = "write" => (fs.mcp = Absent /\ fs.backup = c.pre.mcp)
              /\ pc["p1"] = "mode" => fs.backup = c.pre.mcp
              /\ WroteConfig("p1") => fs.backup = c.pre.mcp
        /\ c.op = "apply_template" =>
              /\ pc["p1"] = "mode" =>
                    (fs.mcp = JsonDumps(c.mcp_config) /\ fs.mode = c.pre.mode)
              /\ WroteConfig("p1") =>
                    /\ fs.mcp = JsonDumps(c.mcp_config)
                    /\ fs.mode.kind = "mode"
                    /\ fs.mode.template = c.template_name

C2_Witness ==
    /\ WroteConfig("p1")
    /\ call["p1"].pre.mcp # Absent
    /\ call["p1"].pre.backup # Absent
    /\ call["p1"].pre.backup # call["p1"].pre.mcp
    /\ fs.backup = call["p1"].pre.mcp
    /\ fs.mcp # call["p1"].pre.mcp

\* both invocations of the race were to write a config and have ended
RaceSettled ==
    \A p \in Procs :
        /\ pc[p] = "done"
        /\ call[p].op = "apply_template"
        /\ ~call[p].dry_run
        /\ LoadTemplate(call[p].template_name).ok

C4_IdempotentApply ==
    (WroteConfig("p1") /\ hist.op = "apply_template"
        /\ hist.params = Params(call["p1"])) =>
        /\ fs.mcp = hist.fs.mcp
        /\ fs.cursor = hist.fs.cursor
        /\ fs.stamped = hist.fs.stamped

C4_Witness ==
    /\ WroteConfig("p1")
    /\ hist.op = "apply_template"
    /\ hist.params = Params(call["p1"])
    /\ call["p1"].template_name = "standard"
    /\ fs.mcp = hist.fs.mcp
    /\ fs.backup = hist.fs.mcp
    /\ fs.backup # hist.fs.backup
    /\ fs.mode # hist.fs.mode

\* the named template is in neither directory, or the file found is no JSON
TemplateUnavailable(name) ==
    \/ (TemplatesDir[name].kind = "absent" /\ CustomDir[name].kind = "absent")
    \/ (TemplatesDir[name].kind \notin {"absent", "json"})
    \/ (TemplatesDir[name].kind = "absent" /\ CustomDir[name].kind # "json")

\* C5: an apply_template call naming a template that is absent from both
\* directories or is not parseable raises ValueError and leaves mcp.json,
\* the backup and ACTIVE_MODE.txt (and the directory) as they were.
C5_LoadFailureWritesNothing ==
    LET c == call["p1"]
    IN  (c.op = "apply_template" /\ TemplateUnavailable(c.template_name)) =>
           /\ fs = c.pre
           /\ pc["p1"] \in {"load", "done"}
           /\ pc["p1"] = "done" =>
                 /\ ret["p1"].status = "raised"
                 /\ ret["p1"].exc \in {"ValueError: Template not found",
                                       "ValueError: Invalid template JSON"}

C5_Witness ==
    /\ pc["p1"] = "done"
    /\ call["p1"].op = "apply_template"
    /\ call["p1"].template_name = "broken"
    /\ ~call["p1"].dry_run
    /\ ret["p1"].status = "raised"
    /\ fs.mcp = PriorDoc
    /\ fs.backup = Absent

\* C6: apply_template with dry_run returns the serialized document and
\* leaves the file system as it was: no .cursor directory, mcp.json, backup
\* or sidecar is created or changed.
C6_DryRunTouchesNothing ==
    LET c == call["p1"]
    IN  (c.op = "apply_template" /\ c.dry_run) =>
           /\ fs = c.pre
           /\ (pc["p1"] = "done" /\ ~TemplateUnavailable(c.template_name)) =>
                 /\ ret["p1"].status = "returned"
                 /\ ret["p1"].value = JsonDumps(c.mcp_config)
                 /\ c.mcp_config # NotBuilt

C6_Witness ==
    /\ pc["p1"] = "done"
    /\ call["p1"].op = "apply_template"
    /\ call["p1"].dry_run
    /\ ret["p1"].status = "returned"
    /\ ret["p1"].value.kind = "json"
    /\ ~fs.cursor

----------------------------------------------------------------------------
(* Claims about the resolved servers *)

\* the built entry of the one server of the template drawn
TheServer == tmpl["servers"][1]
InArgs == TheServer["config"]["args"]
OutArgs == built["mcpServers"][TheServer["name"]]["args"]

\* C7: no resolved argument of an enabled custom server still contains
\* ${workspaceFolder}, whether the argument held the compound token, the
\* standalone token, or both.
C7_NoWorkspaceTokenLeft ==
    (built # NotBuilt /\ TheServer["type"] = "custom") =>
        \A i \in 1..Len(OutArgs) : ~Contains(OutArgs[i], WS_TOKEN)

\* C8: a community server's argument is replaced by the workspace path only
\* when it is exactly ${workspaceFolder}; every other argument, also one that
\* contains the token, is emitted unchanged; order and count are kept.
C8_CommunityExactMatchOnly ==
    (built # NotBuilt /\ TheServer["type"] = "community") =>
        /\ Len(OutArgs) = Len(InArgs)
        /\ \A i \in 1..Len(InArgs) :
              /\ InArgs[i] = <<"${workspaceFolder}">> => OutArgs[i] = PathStr(wsPath)
              /\ InArgs[i] # <<"${workspaceFolder}">> => OutArgs[i] = InArgs[i]

C8_Witness ==
    /\ built # NotBuilt
    /\ TheServer["type"] = "community"
    /\ os_name = "posix"
    /\ wsPath = <<"w">>
    /\ InArgs = << <<"-y">>, <<"prefix-", "${workspaceFolder}">>, <<"${workspaceFolder}">> >>
    /\ OutArgs = << <<"-y">>, <<"prefix-", "${workspaceFolder}">>, <<"/", "w">> >>

InEnv == TheServer["config"]["env"]
OutEnv == built["mcpServers"][TheServer["name"]]["env"]

\* the text is ${VAR} for one name VAR
ExactPlaceholder(value) ==
    Len(value) = 3 /\ value[1] = "${" /\ value[3] = "}" /\ value[2] \notin {"${", "}"}

\* C9 as claimed: ${VAR} resolves to VAR's value when VAR is set and stays
\* the literal text otherwise, any other value passes through unchanged, and
\* a placeholder is never replaced by the empty string.
C9_PlaceholderNeverEmpty ==
    (built # NotBuilt /\ "env" \in DOMAIN TheServer["config"]) =>
        /\ DOMAIN OutEnv = DOMAIN InEnv
        /\ \A key \in DOMAIN InEnv :
              IF ExactPlaceholder(InEnv[key])
              THEN /\ OutEnv[key] # << >>
                   /\ OutEnv[key] = IF <<InEnv[key][2]>> \in DOMAIN environ
                                    THEN environ[<<InEnv[key][2]>>]
                                    ELSE InEnv[key]
              ELSE OutEnv[key] = InEnv[key]

\* C9 as amended: a value that starts with ${ and ends with } resolves to
\* the value of the variable named by the text between them when that
\* variable is set (to the empty string, if it is set to the empty string)
\* and stays the literal text when it is not set, so a placeholder of an
\* unset variable is never replaced by the empty string; any other value
\* passes through unchanged; every key is kept.
C9_EnvResolution ==
    (built # NotBuilt /\ "env" \in DOMAIN TheServer["config"]) =>
        /\ DOMAIN OutEnv = DOMAIN InEnv
        /\ \A key \in DOMAIN InEnv :
              LET value == InEnv[key]
                  n == Len(value)
              IN  IF n >= 2 /\ value[1] = "${" /\ value[n] = "}"
                  THEN LET var == [i \in 1..(n - 2) |-> value[i + 1]]
                       IN  /\ var \in DOMAIN environ => OutEnv[key] = environ[var]
                           /\ var \notin DOMAIN environ =>
                                 (OutEnv[key] = value /\ OutEnv[key] # << >>)
                  ELSE OutEnv[key] = value

C9_Witness ==
    /\ built # NotBuilt
    /\ "env" \in DOMAIN TheServer["config"]
    /\ InEnv = [K1 |-> <<"${", "A", "}">>, K2 |-> <<"${", "B", "}">>]
    /\ DOMAIN environ = { <<"A">> }
    /\ OutEnv = [K1 |-> <<"v">>, K2 |-> <<"${", "B", "}">>]

\* the argument with the compound token replaced by str(aistack_path)
RootVerbatim(arg) == StrReplace(arg, COMPOUND_TOKEN, PathStr(rootPath))

SameDirectory == PathResolve(wsPath) = PathResolve(rootPath)

----------------------------------------------------------------------------
(* Claims about the override merge *)

ServerNames(servers) == { servers[i]["name"] : i \in 1..Len(servers) }

MergeCall == call["p1"]
MergeDone == pc["p1"] \in {"merged", "done"} /\ MergeCall.op = "_merge_overrides"
OverrideServers == DictGet(MergeCall.overrides, "servers", << >>)

\* C11: an override entry naming no server of the template is not inserted:
\* the merged template has the template's server names in the template's
\* order, it equals the template when no entry matches, and the keys of the
\* generated mcpServers are among the template's server names.
C11_UnmatchedOverrideIsNoOp ==
    MergeDone =>
        LET template == MergeCall.template
            merged == ret["p1"].value
        IN  /\ Len(merged["servers"]) = Len(template["servers"])
            /\ \A i \in 1..Len(template["servers"]) :
                  merged["servers"][i]["name"] = template["servers"][i]["name"]
            /\ (\A j \in 1..Len(OverrideServers) :
                   OverrideServers[j]["name"] \notin ServerNames(template["servers"]))
                  => merged = template
            /\ built # NotBuilt =>
                  DOMAIN built["mcpServers"] \subseteq ServerNames(template["servers"])

C11_Witness ==
    /\ MergeDone
    /\ built # NotBuilt
    /\ Len(OverrideServers) = 1
    /\ OverrideServers[1]["name"] = "nosuch"
    /\ "config" \in DOMAIN OverrideServers[1]
    /\ ret["p1"].value = StandardTemplate
    /\ DOMAIN built["mcpServers"] = {"code-intelligence", "filesystem"}

\* the override entries, in order, that name the server
MatchesOf(name) ==
    { j \in 1..Len(OverrideServers) : OverrideServers[j]["name"] = name }

\* C12: a template server named by override entries has, for each key an
\* entry gives, the value of the last entry giving it, and for every other
\* key its template value; a server no entry names is unchanged; the
\* template object passed in is as it was.
C12_FieldLevelMerge ==
    MergeDone =>
        LET template == MergeCall.template
            merged == ret["p1"].value
        IN  /\ tmpl = template
            /\ DOMAIN merged = DOMAIN template
            /\ \A k \in DOMAIN template \ {"servers"} : merged[k] = template[k]
            /\ Len(merged["servers"]) = Len(template["servers"])
            /\ \A i \in 1..Len(template["servers"]) :
                  LET old == template["servers"][i]
                      new == merged["servers"][i]
                      m == MatchesOf(old["name"])
                  IN  /\ m = {} => new = old
                      /\ DOMAIN new = DOMAIN old \cup UNION { DOMAIN OverrideServers[j] : j \in m }
                      /\ \A k \in DOMAIN new :
                            LET giving == { j \in m : k \in DOMAIN OverrideServers[j] }
                            IN  IF giving = {} THEN new[k] = old[k]
                                ELSE \E j \in giving :
                                        /\ \A j2 \in giving : j2 <= j
                                        /\ new[k] = OverrideServers[j][k]

C12_Witness ==
    /\ MergeDone
    /\ MergeCall.template = StandardTemplate
    /\ Len(OverrideServers) = 2
    /\ OverrideServers[1] = [name |-> "filesystem", enabled |-> FALSE]
    /\ OverrideServers[2] = [name |-> "filesystem", enabled |-> TRUE, requires_env |-> << >>]
    /\ ret["p1"].value["servers"][2]["enabled"] = TRUE
    /\ ret["p1"].value["servers"][2]["config"] = StandardTemplate["servers"][2]["config"]
    /\ ret["p1"].value["servers"][1] = StandardTemplate["servers"][1]
    /\ tmpl = StandardTemplate

----------------------------------------------------------------------------
(* Claims about validate_template and the commands of accepted templates *)

\* C13: every server entry built from a template that validate_template
\* accepts has a command that is a non-empty text, also when the server's
\* config gives no command.
C13_CommandNeverEmpty ==
    (built # NotBuilt /\ call["p1"].op = "validate_template") =>
        \A name \in DOMAIN built["mcpServers"] :
            LET command == built["mcpServers"][name]["command"]
            IN  command.py = "str" /\ Len(command.s) > 0

\* the template the files hold, when they hold one
TemplateOnFile ==
    IF tmpl.template_file # Absent THEN tmpl.template_file ELSE tmpl.custom_file

\* C14: validate_template returns, and returns true exactly when the
\* template loads, has name, description and servers, every server has name
\* and type, and every server whose enabled flag is true or absent has
\* config; a server with enabled false needs no config.
C14_ValidateTemplateVerdict ==
    (pc["p1"] \in {"validated", "done"} /\ call["p1"].op = "validate_template") =>
        /\ ret["p1"].status = "returned"
        /\ ret["p1"].value.b <=>
              /\ TemplateOnFile.kind = "json"
              /\ {"name", "description", "servers"} \subseteq DOMAIN TemplateOnFile.value
              /\ \A i \in 1..Len(TemplateOnFile.value["servers"]) :
                    LET server == TemplateOnFile.value["servers"][i]
                    IN  /\ {"name", "type"} \subseteq DOMAIN server
                        /\ ("enabled" \notin DOMAIN server \/ server["enabled"])
                              => "config" \in DOMAIN server

C14_Witness ==
    /\ pc["p1"] = "validated"
    /\ call["p1"].op = "validate_template"
    /\ ret["p1"].value.b
    /\ TemplateOnFile.kind = "json"
    /\ Len(TemplateOnFile.value["servers"]) = 2
    /\ TemplateOnFile.value["servers"][1] = [name |-> "fs", type |-> "community", enabled |-> FALSE]
    /\ "config" \in DOMAIN TemplateOnFile.value["servers"][2]

----------------------------------------------------------------------------
(* Claims about the documents of the config builder *)

GenCall == call["p2"]
MultiBuilt == built # NotBuilt /\ GenCall.op = "build_multi_repo_config"
SingleBuilt == built # NotBuilt /\ GenCall.op = "build_single_repo_config"

DistinctRepos(repo_paths) ==
    \A i, j \in 1..Len(repo_paths) : i # j => repo_paths[i] # repo_paths[j]

\* C15: for a list of n different repositories build_multi_repo_config
\* returns exactly n + 2 servers: git-multi, filesystem-multi and one
\* code-intelligence-<sanitized directory name> per repository, the
\* identifiers of different repositories being different.
C15_OneServerPerRepo ==
    (MultiBuilt /\ DistinctRepos(GenCall.repo_paths)) =>
        LET n == Len(GenCall.repo_paths)
            names == DOMAIN built["mcpServers"]
        IN  /\ Cardinality(names) = n + 2
            /\ {"git-multi", "filesystem-multi"} \subseteq names
            /\ \A i \in 1..n : IntelligenceName(GenCall.repo_paths[i]) \in names
            /\ \A i, j \in 1..n :
                  i # j => IntelligenceName(GenCall.repo_paths[i])
                              # IntelligenceName(GenCall.repo_paths[j])

\* the text of a repository's absolute path written with forward slashes
ForwardPath(repo_path) ==
    LET segs == repo_path.parent \o <<PathName(repo_path)>>
    IN  (IF os_name = "nt" THEN <<"C:">> ELSE << >>)
        \o [i \in 1..(2 * Len(segs)) |-> IF i % 2 = 1 THEN "/" ELSE segs[i \div 2]]

\* the path expression the arguments must carry for a repository
ExpectedExpr(repo_path) ==
    IF GenCall.use_relative_paths
    THEN <<"${workspaceFolder}", "/", "workspaces", "/", PathName(repo_path)>>
    ELSE ForwardPath(repo_path)

\* C16: the git-multi arguments are the two fixed ones followed, for each
\* repository in input order, by --repository and the repository's path
\* expression; the filesystem-multi arguments are the two fixed ones
\* followed by each path expression in input order.  The expression is
\* ${workspaceFolder}/workspaces/<directory name> in relative mode and the
\* repository's path with forward slashes in absolute mode.
C16_MultiArgsInOrder ==
    MultiBuilt =>
        LET n == Len(GenCall.repo_paths)
            git_args == built["mcpServers"]["git-multi"]["args"]
            fs_args == built["mcpServers"]["filesystem-multi"]["args"]
        IN  /\ Len(git_args) = 2 + 2 * n
            /\ git_args[1] = <<"-y">>
            /\ git_args[2] = <<"@modelcontextprotocol/server-git">>
            /\ Len(fs_args) = 2 + n
            /\ fs_args[1] = <<"-y">>
            /\ fs_args[2] = <<"@modelcontextprotocol/server-filesystem">>
            /\ \A i \in 1..n :
                  /\ git_args[2 * i + 1] = <<"--repository">>
                  /\ git_args[2 * i + 2] = ExpectedExpr(GenCall.repo_paths[i])
                  /\ fs_args[2 + i] = ExpectedExpr(GenCall.repo_paths[i])

C16_Witness ==
    /\ MultiBuilt
    /\ GenCall.use_relative_paths
    /\ GenCall.repo_paths = <<RepoPath(<<"p">>, <<"a">>), RepoPath(<<"p">>, <<"b">>)>>
    /\ built["mcpServers"]["git-multi"]["args"][4]
          = <<"${workspaceFolder}", "/", "workspaces", "/", "a">>
    /\ built["mcpServers"]["filesystem-multi"]["args"][4]
          = <<"${workspaceFolder}", "/", "workspaces", "/", "b">>

\* the arguments of a document that hold the workspace token
TokenArgs(config) ==
    { <<name, i>> \in UNION { {name} \X (1..Len(config["mcpServers"][name]["args"])) :
                                 name \in DOMAIN config["mcpServers"] } :
        Contains(config["mcpServers"][name]["args"][i], WS_TOKEN) }

\* C17: build_single_repo_config returns exactly the servers
\* code-intelligence, filesystem and git, the same document for every
\* workspace path; the workspace appears only as the literal
\* ${workspaceFolder} and no argument holds the path given.
C17_SingleRepoNoPath ==
    SingleBuilt =>
        /\ DOMAIN built["mcpServers"] = {"code-intelligence", "filesystem", "git"}
        /\ \A workspace_path \in PathChoices :
              built = BuildSingleRepoConfig(workspace_path)
        /\ TokenArgs(built) = { <<"code-intelligence", 3>>, <<"code-intelligence", 5>>,
                                <<"filesystem", 3>>, <<"git", 4>> }
        /\ \A name \in DOMAIN built["mcpServers"] :
              \A i \in 1..Len(built["mcpServers"][name]["args"]) :
                 built["mcpServers"][name]["args"][i] # PathStr(GenCall.workspace_path)

C17_Witness ==
    /\ SingleBuilt
    /\ GenCall.workspace_path = <<"w", "..", "AIStack-MCP">>
    /\ built["mcpServers"]["git"]["args"][4] = WS_TOKEN
    /\ built["mcpServers"]["filesystem"]["args"][3] = WS_TOKEN

\* C18: the file written from the document of build_single_repo_config or
\* build_multi_repo_config, in relative and in absolute mode, validates
\* with no error-level finding and a passing verdict.
C18_GeneratedConfigValidates ==
    (pc["p1"] = "validated" /\ call["p1"].op = "validate_config_file") =>
        /\ ret["p1"].status = "returned"
        /\ ret["p1"].value.passed
        /\ \A e \in ret["p1"].value.errors : e.level # "error"

C18_Witness ==
    /\ pc["p1"] = "validated"
    /\ call["p1"].op = "validate_config_file"
    /\ MultiBuilt
    /\ ~GenCall.use_relative_paths
    /\ Len(GenCall.repo_paths) = 2
    /\ fs.mcp = JsonDumps(built)
    /\ ret["p1"].status = "returned"
    /\ ret["p1"].value.passed

----------------------------------------------------------------------------
(* Claims about the validator *)

MainCall == call["p1"]

\* main has reached the call of validate_config_file and it is over
FileValidated == pc["p1"] \in {"v_summary", "done"} /\ MainCall.op = "main"

\* validate_config_file returned its verdict and findings
VerdictReturned == FileValidated /\ "passed" \in DOMAIN MainCall

\* the document of the file is a JSON object
FileIsObject == JsonLoad(fs.mcp).ok /\ JsonLoad(fs.mcp).value.t = "dict"

FileDoc == JsonLoad(fs.mcp).value.d

\* the cases the structural validation has to reject
StructuralDefect ==
    \/ "mcpServers" \notin DOMAIN FileDoc
    \/ FileDoc["mcpServers"].t # "dict"
    \/ DOMAIN FileDoc["mcpServers"].d = {}
    \/ \E name \in DOMAIN FileDoc["mcpServers"].d :
          LET server == FileDoc["mcpServers"].d[name]
          IN  /\ server.t = "dict"
              /\ \/ "command" \notin DOMAIN server.d
                 \/ "args" \notin DOMAIN server.d
                 \/ server.d["args"].t # "list"

StructuralMessages ==
    {"Missing 'mcpServers' key", "'mcpServers' must be an object",
     "Missing 'command' field", "Missing 'args' field", "'args' must be an array"}

\* C19: validating a file whose document is a JSON object gives an
\* error-level finding and a failing verdict when mcpServers is missing, is
\* not a mapping or is an empty mapping, and when a server lacks command,
\* lacks args or has args that is not an array; otherwise no structural
\* error is among the findings.
C19_StructuralValidation ==
    (FileValidated /\ FileIsObject) =>
        IF StructuralDefect
        THEN /\ VerdictReturned
             /\ ~MainCall["passed"]
             /\ \E e \in MainCall["errors"] : e.level = "error"
        ELSE VerdictReturned =>
                \A e \in MainCall["errors"] :
                   ~(e.level = "error" /\ e.message \in StructuralMessages)

ErrorCount == Cardinality({ e \in MainCall["errors"] : e.level = "error" })
WarningCount == Cardinality({ e \in MainCall["errors"] : e.level = "warning" })

\* the file's document names both servers
FileHasServers(names) ==
    /\ FileIsObject
    /\ "mcpServers" \in DOMAIN FileDoc
    /\ FileDoc["mcpServers"].t = "dict"
    /\ names \subseteq DOMAIN FileDoc["mcpServers"].d

\* C20: the verdict of validate_config_file is pass exactly when no finding
\* has level error, whatever warnings and infos there are; with --strict
\* main fails when there is any warning; a document with both git and
\* git-multi (filesystem and filesystem-multi) gets the mode-conflict
\* warning.  main exits with 0 exactly when the final verdict is pass and
\* the generation test, if run, passed.
C20_VerdictFromErrors ==
    VerdictReturned =>
        /\ MainCall["passed"] <=> (ErrorCount = 0)
        /\ FileHasServers({"git", "git-multi"}) =>
              Finding("warning", "Both 'git' and 'git-multi' defined - possible mode conflict", "")
                 \in MainCall["errors"]
        /\ FileHasServers({"filesystem", "filesystem-multi"}) =>
              Finding("warning", "Both 'filesystem' and 'filesystem-multi' defined - possible mode conflict", "")
                 \in MainCall["errors"]
        /\ pc["p1"] = "done" =>
              /\ ret["p1"].status = "returned"
              /\ ret["p1"].value.passed
                    <=> (ErrorCount = 0 /\ ~(MainCall["strict"] /\ WarningCount > 0))
              /\ (ret["p1"].value.exit_code = 0)
                    <=> (ret["p1"].value.passed /\ MainCall["exit_code"] = 0)
              /\ ret["p1"].value.exit_code \in {0, 1}

C20_Witness ==
    /\ VerdictReturned
    /\ pc["p1"] = "done"
    /\ ~MainCall["strict"]
    /\ FileHasServers({"git", "git-multi"})
    /\ FileDoc["mcpServers"].d = [n \in {"git", "git-multi"} |-> GoodServer]
    /\ WarningCount = 1
    /\ ErrorCount = 0
    /\ ret["p1"].value.passed
    /\ ret["p1"].value.exit_code = 0

\* the servers of the file's document, when it has a mapping of them
FileServers ==
    IF FileIsObject /\ "mcpServers" \in DOMAIN FileDoc /\ FileDoc["mcpServers"].t = "dict"
    THEN FileDoc["mcpServers"].d ELSE << >>

\* the server is a mapping that does not declare the variable: it has no env,
\* or an env mapping without it
Undeclared(server, var) ==
    /\ server.t = "dict"
    /\ \/ "env" \notin DOMAIN server.d
       \/ server.d["env"].t = "dict" /\ var \notin DOMAIN server.d["env"].d

\* C21: for every server whose name contains code-intelligence and every
\* one of OLLAMA_URL and QDRANT_URL the server does not declare (env without
\* the variable, or no env at all) the findings hold a warning about the
\* variable for that server, and no error about it.
C21_DependencyWarnings ==
    VerdictReturned =>
        \A name \in DOMAIN FileServers : \A var \in {"OLLAMA_URL", "QDRANT_URL"} :
           (NameHas(name, "code-intelligence") /\ Undeclared(FileServers[name], var)) =>
              /\ Finding("warning", "Missing " \o var, name) \in MainCall["errors"]
              /\ Finding("error", "Missing " \o var, name) \notin MainCall["errors"]

\* C22: for every file that parses as JSON validate_config_file returns a
\* verdict and one collection of findings that holds those of the structure
\* check, of each server's check and of the mode-consistency check; it does
\* not raise, also when mcpServers is missing or no object or a server entry
\* is malformed.
C22_FindingsExhaustive ==
    (FileValidated /\ JsonLoad(fs.mcp).ok) =>
        /\ VerdictReturned
        /\ ValidateJsonStructure(JsonLoad(fs.mcp).value) \subseteq MainCall["errors"]
        /\ ValidateModeConsistency(FileServers) \subseteq MainCall["errors"]
        /\ \A name \in DOMAIN FileServers :
              FileServers[name].t = "dict" =>
                 ValidateServerConfig(name, FileServers[name]) \subseteq MainCall["errors"]

\* C23: when main reaches sys.exit the validator command exits with 0 when
\* all validations passed, with 1 when validation failed and with 2 when the
\* config file is not found.
C23_ExitCodes ==
    (pc["p1"] = "done" /\ MainCall.op = "main" /\ ret["p1"].status = "returned") =>
        ret["p1"].value.exit_code =
           IF fs.mcp = Absent THEN 2
           ELSE IF ret["p1"].value.passed /\ MainCall["exit_code"] = 0 THEN 0
           ELSE 1

----------------------------------------------------------------------------
(* mcp_intelligence_server.embed_texts: one request to Ollama per text *)

MaxTexts == 2

\* [value] * n
ListOf(value, n) == [value |-> value, n |-> n]

\* what requests.post does for one text: it raises, or gives a response with
\* a status and a body
PostRaises(exc) == [kind |-> "raises", exc |-> exc]
PostResponse(status_code, body) == [kind |-> "response", status_code |-> status_code, body |-> body]
JsonBody(d) == [json |-> TRUE, d |-> d]
NoJsonBody == [json |-> FALSE]

PostOutcomes ==
    { PostRaises("ConnectionError"), PostRaises("Timeout"),
      PostResponse(200, JsonBody([embedding |-> ListOf("0.5", 1024)])),
      PostResponse(200, JsonBody([embedding |-> ListOf("0.25", 768)])),
      PostResponse(200, JsonBody([error |-> "invalid"])),
      PostResponse(200, NoJsonBody),
      PostResponse(500, JsonBody([embedding |-> ListOf("0.5", 1024)])) }

\* variant: a failed request contributes an empty vector
EmbedOne_emptyFallback(outcome) ==
    IF outcome.kind = "raises" THEN ListOf("0.0", 0)
    ELSE IF outcome.status_code >= 400 THEN ListOf("0.0", 0)
    ELSE IF ~outcome.body.json THEN ListOf("0.0", 0)
    ELSE IF "embedding" \notin DOMAIN outcome.body.d THEN ListOf("0.0", 0)
    ELSE outcome.body.d["embedding"]

\* lines 144-154: the body of the loop for one text
EmbedOne(outcome) ==
    IF outcome.kind = "raises" THEN ListOf("0.0", 1024)
    ELSE IF outcome.status_code >= 400 THEN ListOf("0.0", 1024)
    ELSE IF ~outcome.body.json THEN ListOf("0.0", 1024)
    ELSE IF "embedding" \notin DOMAIN outcome.body.d THEN ListOf("0.0", 1024)
    ELSE outcome.body.d["embedding"]

TextChoices == { <<"first">>, <<"second">> }

InitEmbed ==
    /\ os_name \in {"posix", "nt"}
    /\ environ = DiskEnviron
    /\ tmpl = EmptyDict
    /\ wsPath = <<"w">>
    /\ rootPath = <<"AIStack-MCP">>
    /\ built = NotBuilt
    /\ IdleDisk

\* line 141: embeddings = []
EmbedBegin(p, texts) ==
    /\ pc[p] = "idle"
    /\ call' = [call EXCEPT ![p] =
                   [op |-> "embed_texts", texts |-> texts, posted |-> << >>,
                    embeddings |-> << >>]]
    /\ pc' = [pc EXCEPT ![p] = "embed"]
    /\ UNCHANGED <<fs, clock, ret, ncalls, writeOrder, hist>>
    /\ UNCHANGED builderVars

\* lines 143-154: the next text is posted and its vector appended
EmbedPost(p, outcome) ==
    /\ pc[p] = "embed"
    /\ Len(call[p].embeddings) < Len(call[p].texts)
    /\ call' = [call EXCEPT ![p].posted = Append(@, outcome),
                            ![p].embeddings = Append(@, EmbedOne(outcome))]
    /\ UNCHANGED <<fs, clock, pc, ret, ncalls, writeOrder, hist>>
    /\ UNCHANGED builderVars

\* line 156: return embeddings
EmbedReturn(p) ==
    /\ pc[p] = "embed"
    /\ Len(call[p].embeddings) = Len(call[p].texts)
    /\ ret' = [ret EXCEPT ![p] = Returned(call[p].embeddings)]
    /\ pc' = [pc EXCEPT ![p] = "done"]
    /\ UNCHANGED <<fs, clock, call, ncalls, writeOrder, hist>>
    /\ UNCHANGED builderVars

NextEmbed ==
    \/ \E texts \in ListsUpTo(TextChoices, MaxTexts) : EmbedBegin("p1", texts)
    \/ \E outcome \in PostOutcomes : EmbedPost("p1", outcome)
    \/ EmbedReturn("p1")

SpecEmbed == InitEmbed /\ [][NextEmbed]_vars

\* the request for the text succeeded: a response with a good status and a
\* JSON body that has the embedding field
PostSucceeded(outcome) ==
    /\ outcome.kind = "response"
    /\ outcome.status_code < 400
    /\ outcome.body.json
    /\ "embedding" \in DOMAIN outcome.body.d

\* C24: embed_texts returns one vector per text in input order (none for no
\* texts); a text whose request fails by a connection error, a timeout, an
\* HTTP error status or a response without embedding field gets 1024 zeros,
\* the call still returns, and the other texts get the vectors of their own
\* responses.
C24_OneVectorPerText ==
    (pc["p1"] = "done" /\ call["p1"].op = "embed_texts") =>
        /\ ret["p1"].status = "returned"
        /\ Len(ret["p1"].value) = Len(call["p1"].texts)
        /\ \A i \in 1..Len(call["p1"].texts) :
              LET outcome == call["p1"].posted[i]
              IN  ret["p1"].value[i] =
                     IF PostSucceeded(outcome) THEN outcome.body.d["embedding"]
                     ELSE [value |-> "0.0", n |-> 1024]

C24_Witness ==
    /\ pc["p1"] = "done"
    /\ call["p1"].op = "embed_texts"
    /\ call["p1"].texts = << <<"first">>, <<"second">> >>
    /\ call["p1"].posted[2] = PostRaises("ConnectionError")
    /\ ret["p1"].value = << [value |-> "0.5", n |-> 1024], [value |-> "0.0", n |-> 1024] >>

----------------------------------------------------------------------------
(* Claims about the order of the substitution rules *)

\* stands for the text a rule inserted, which no later rule may read
INSERTED == <<"<inserted>">>

\* the rules applied in their order with the text each rule inserts kept
\* apart from the later rules: the compound token, else the workspace
\* token, is set aside; ../AIStack-MCP is replaced in what the template
\* wrote; the path set aside is put in; the result is normalized
SubstApart(arg) ==
    LET compound == Contains(arg, COMPOUND_TOKEN)
        path == IF compound
                THEN (IF SameDirectory THEN PathStr(rootPath)
                      ELSE PathStr(PathResolve(wsPath \o <<"..", "AIStack-MCP">>)))
                ELSE PathStr(wsPath)
        marked == IF compound THEN StrReplace(arg, COMPOUND_TOKEN, INSERTED)
                  ELSE StrReplace(arg, WS_TOKEN, INSERTED)
        relative == IF Contains(marked, REL_TOKEN) /\ ~Contains(marked, WS_TOKEN)
                    THEN StrReplace(marked, REL_TOKEN, INSERTED \o <<"root">>)
                    ELSE marked
    IN  NormalizeSeparators(
            StrReplace(StrReplace(relative, INSERTED \o <<"root">>, PathStr(rootPath)),
                       INSERTED, path))

\* C25: the substitution rules of a custom server run in the order compound
\* token, ${workspaceFolder}, relative ../AIStack-MCP, normalization, and
\* the workspace or root path a rule inserts is not rewritten by a later
\* substitution rule, for every workspace and root path, also one whose
\* text holds ../AIStack-MCP.
C25_NoDoubleSubstitution ==
    (built # NotBuilt /\ TheServer["type"] = "custom") =>
        \A i \in 1..Len(InArgs) : OutArgs[i] = SubstApart(InArgs[i])

----------------------------------------------------------------------------
(* Claims about the backups of write_config *)

\* the documents held by timestamp-suffixed backup files
StampedContents(f) == { d \in { f.stamped[t] : t \in 1..MaxClock } : d.kind = "json" }

WcDone == pc["p1"] = "done" /\ call["p1"].op = "write_config"

\* C26: a write_config call returns true or false; with backup enabled a
\* call that returns true has copied the file it found to a
\* timestamp-suffixed backup and every document a backup held before the
\* call is still held by some backup after it, so every overwritten
\* document stays recoverable; with backup disabled the backup files are as
\* they were.
C26_BackupsRetained ==
    WcDone =>
        /\ ret["p1"].status = "returned"
        /\ ret["p1"].value.b \in BOOLEAN
        /\ ret["p1"].value.b => fs.mcp = JsonDumps(call["p1"].config)
        /\ (call["p1"].backup /\ ret["p1"].value.b) =>
              /\ call["p1"].pre.mcp.kind = "json" =>
                    call["p1"].pre.mcp \in StampedContents(fs)
              /\ StampedContents(call["p1"].pre) \subseteq StampedContents(fs)
        /\ ~call["p1"].backup =>
              /\ fs.stamped = call["p1"].pre.stamped
              /\ fs.backup = call["p1"].pre.backup

----------------------------------------------------------------------------
(* apply_template on a workspace without .cursor, then the validator on the
   file it wrote *)

\* server entries validate_template lets through
NamedServerSpecs == { spec \in ServerSpecChoices : {"name", "type"} \subseteq DOMAIN spec }

ConformInputs ==
    \/ /\ os_name \in {"posix", "nt"}
       /\ wsPath = <<"w">>
       /\ rootPath = <<"AIStack-MCP">>
       /\ environ = EmptyDict
       /\ \E arg \in ArgsOfParts(MaxParts - 1) :
             /\ os_name = "nt" => ~NtUnc(arg)
             /\ tmpl = OneServerTemplate(
                    [name |-> "code-intelligence", type |-> "custom",
                     config |-> [args |-> <<arg>>]])
    \/ CommunityInputs
    \/ EnvInputs
    \/ /\ os_name \in {"posix", "nt"}
       /\ wsPath = <<"w">>
       /\ rootPath = <<"AIStack-MCP">>
       /\ environ = DiskEnviron
       /\ \/ tmpl \in MergeTemplates
          \/ \E l \in ListsUpTo(NamedServerSpecs, MaxServers) :
                tmpl = [name |-> "t", description |-> "d", servers |-> l]

InitConform ==
    /\ built = NotBuilt
    /\ ConformInputs
    /\ IdleDisk

CfBegin(p, overrides) ==
    /\ pc[p] = "idle"
    /\ overrides = EmptyDict \/ tmpl = StandardTemplate
    /\ call' = [call EXCEPT ![p] = [op |-> "apply_template", overrides |-> overrides]]
    /\ pc' = [pc EXCEPT ![p] = "cf_build"]
    /\ UNCHANGED <<fs, clock, ret, ncalls, writeOrder, hist>>
    /\ UNCHANGED builderVars

\* apply_template lines 139-151: merge the overrides, build the document
CfBuild(p) ==
    /\ pc[p] = "cf_build"
    /\ built' = BuildMcpConfig(MergeOverrides(tmpl, call[p].overrides), wsPath, rootPath)
    /\ pc' = [pc EXCEPT ![p] = "cf_write"]
    /\ UNCHANGED <<fs, clock, call, ret, ncalls, writeOrder, hist>>
    /\ UNCHANGED <<os_name, environ, tmpl, wsPath, rootPath>>

\* apply_template lines 153-178 where no mcp.json exists: mkdir, the
\* document, the status sidecar
CfWrite(p) ==
    /\ pc[p] = "cf_write"
    /\ fs' = [fs EXCEPT !.cursor = TRUE, !.mcp = JsonDumps(built),
                        !.mode = ModeText(tmpl["name"])]
    /\ ret' = [ret EXCEPT ![p] =
                  Returned([kind |-> "path",
                            text |-> PathStr(wsPath \o <<".cursor", "mcp.json">>)])]
    /\ pc' = [pc EXCEPT ![p] = "done"]
    /\ UNCHANGED <<clock, call, ncalls, writeOrder, hist>>
    /\ UNCHANGED builderVars

\* validate_config_file on the workspace's mcp.json
CfValidate(p, q) ==
    /\ pc[p] = "done"
    /\ pc[q] = "idle"
    /\ LET r == ValidateConfigFile(fs.mcp)
       IN  IF r.status = "raised"
           THEN \E e \in r.excs : ret' = [ret EXCEPT ![q] = Raised(e)]
           ELSE ret' = [ret EXCEPT ![q] =
                           Returned([kind |-> "verdict", passed |-> r.passed,
                                     errors |-> r.errors])]
    /\ call' = [call EXCEPT ![q] = [op |-> "validate_config_file"]]
    /\ pc' = [pc EXCEPT ![q] = "validated"]
    /\ UNCHANGED <<fs, clock, ncalls, writeOrder, hist>>
    /\ UNCHANGED builderVars

NextConform ==
    \/ \E overrides \in OverrideChoices \cup {EmptyDict} : CfBegin("p1", overrides)
    \/ CfBuild("p1")
    \/ CfWrite("p1")
    \/ CfValidate("p1", "p2")

SpecConform == InitConform /\ [][NextConform]_vars

\* C27: every entry of the mcpServers the Template Engine generates has a
\* command key and an args value that is a list, and an env that is a
\* mapping when it has one; validating the mcp.json written from it returns
\* a passing verdict with no error-level finding.
C27_GeneratedPassesValidator ==
    /\ (built # NotBuilt /\ call["p1"].op = "apply_template") =>
          \A name \in DOMAIN built["mcpServers"] :
             LET tree == ServerTree(built["mcpServers"][name])
             IN  /\ "command" \in DOMAIN tree.d
                 /\ "args" \in DOMAIN tree.d /\ tree.d["args"].t = "list"
                 /\ "env" \in DOMAIN tree.d => tree.d["env"].t = "dict"
    /\ (pc["p2"] = "validated" /\ call["p2"].op = "validate_config_file") =>
          /\ ret["p2"].status = "returned"
          /\ ret["p2"].value.passed
          /\ \A e \in ret["p2"].value.errors : e.level # "error"

C27_Witness ==
    /\ pc["p2"] = "validated"
    /\ call["p2"].op = "validate_config_file"
    /\ call["p1"].op = "apply_template"
    /\ tmpl = StandardTemplate
    /\ "servers" \in DOMAIN call["p1"].overrides
    /\ DOMAIN built["mcpServers"] = {"code-intelligence", "filesystem"}
    /\ fs.mcp = JsonDumps(built)
    /\ ret["p2"].status = "returned"
    /\ ret["p2"].value.passed

----------------------------------------------------------------------------
(* ServerInstaller: _add_to_mcp_config and uninstall_server on the
   workspace's mcp.json *)

\* del d[k]
DictDel(d, k) == [x \in (DOMAIN d) \ {k} |-> d[x]]

\* a document some other tool wrote, with its own indentation
JsonFile(value, indent) == [kind |-> "json", indent |-> indent, value |-> value]

InstallNames == {"x", "y"}

InstallConfigs ==
    { [command |-> PyStr(<<"npx">>), args |-> << <<"-y">>, <<"pkg">> >>],
      [command |-> PyStr(<<"docker">>), args |-> << <<"run">> >>,
       env |-> [K |-> <<"v">>]] }

InstalledDocs ==
    UNION { { [mcpServers |-> servers],
              [mcpServers |-> servers, inputs |-> << >>] } :
            servers \in UNION { [names -> InstallConfigs] : names \in SUBSET InstallNames } }

InstallFileChoices ==
    { JsonFile(doc, indent) : doc \in InstalledDocs, indent \in {2, 4} }
    \cup { Absent, PartialFile, JsonFile([inputs |-> << >>], 2) }

InitInstaller ==
    /\ os_name = "posix"
    /\ environ = EmptyDict
    /\ tmpl = EmptyDict
    /\ wsPath = <<"w">>
    /\ rootPath = <<"AIStack-MCP">>
    /\ built = NotBuilt
    /\ \E file \in InstallFileChoices : fs = [FreshFs EXCEPT !.cursor = TRUE, !.mcp = file]
    /\ clock = 1
    /\ pc = [p \in Procs |-> "idle"]
    /\ call = [p \in Procs |-> NoCall]
    /\ ret = [p \in Procs |-> NoRet]
    /\ ncalls = 0
    /\ writeOrder = << >>
    /\ hist = NoHist

\* what the call before this one was and found
LastCall(p) ==
    IF call[p].op = "none" THEN NoCall
    ELSE [op |-> call[p].op, server_name |-> call[p].server_name,
          pre |-> call[p].pre, ret |-> ret[p]]

AddBegin(p, server_name, config, enabled) ==
    /\ pc[p] \in {"idle", "done"}
    /\ ncalls < MaxCalls
    /\ call' = [call EXCEPT ![p] =
                   [op |-> "_add_to_mcp_config", server_name |-> server_name,
                    config |-> config, enabled |-> enabled, pre |-> fs,
                    mcp_config |-> EmptyDict, last |-> LastCall(p)]]
    /\ pc' = [pc EXCEPT ![p] = "add_load"]
    /\ ret' = [ret EXCEPT ![p] = NoRet]
    /\ ncalls' = ncalls + 1
    /\ UNCHANGED <<fs, clock, writeOrder, hist>>
    /\ UNCHANGED builderVars

\* variant: the document is started afresh with the one entry
AddEntry_fresh(mcp_config, server_name, config, enabled) ==
    [mcpServers |->
        (server_name :> (IF enabled THEN config ELSE DictSet(config, "disabled", TRUE)))]

\* lines 233-237: config["disabled"] = True unless enabled, then
\* mcp_config["mcpServers"][server_name] = config
AddEntry(mcp_config, server_name, config, enabled) ==
    DictSet(mcp_config, "mcpServers",
            DictSet(mcp_config["mcpServers"], server_name,
                    IF enabled THEN config ELSE DictSet(config, "disabled", TRUE)))

\* lines 221-237: the existing document, or a new one when there is no file
\* or it does not parse; a document without mcpServers raises KeyError
AddLoad(p) ==
    /\ pc[p] = "add_load"
    /\ LET loaded == IF fs.mcp # Absent /\ JsonLoads(fs.mcp).ok
                     THEN JsonLoads(fs.mcp).value
                     ELSE [mcpServers |-> EmptyDict]
       IN  IF "mcpServers" \notin DOMAIN loaded
           THEN /\ ret' = [ret EXCEPT ![p] = Raised("KeyError")]
                /\ pc' = [pc EXCEPT ![p] = "done"]
                /\ UNCHANGED call
           ELSE /\ call' = [call EXCEPT ![p].mcp_config =
                               AddEntry(loaded, call[p].server_name, call[p].config,
                                        call[p].enabled)]
                /\ pc' = [pc EXCEPT ![p] = "add_save"]
                /\ UNCHANGED ret
    /\ UNCHANGED <<fs, clock, ncalls, writeOrder, hist>>
    /\ UNCHANGED builderVars

\* lines 240-243
AddSave(p) ==
    /\ pc[p] = "add_save"
    /\ fs' = [fs EXCEPT !.mcp = JsonDumps(call[p].mcp_config)]
    /\ ret' = [ret EXCEPT ![p] = Returned([kind |-> "bool", b |-> TRUE])]
    /\ pc' = [pc EXCEPT ![p] = "done"]
    /\ UNCHANGED <<clock, call, ncalls, writeOrder, hist>>
    /\ UNCHANGED builderVars

\* lines 244-246 and 273-275: write_text fails after the file was opened
SaveFails(p) ==
    /\ pc[p] \in {"add_save", "un_save"}
    /\ \E left \in {EmptyFile, PartialFile} : fs' = [fs EXCEPT !.mcp = left]
    /\ ret' = [ret EXCEPT ![p] = Returned([kind |-> "bool", b |-> FALSE])]
    /\ pc' = [pc EXCEPT ![p] = "done"]
    /\ UNCHANGED <<clock, call, ncalls, writeOrder, hist>>
    /\ UNCHANGED builderVars

UninstallBegin(p, server_name) ==
    /\ pc[p] \in {"idle", "done"}
    /\ ncalls < MaxCalls
    /\ call' = [call EXCEPT ![p] =
                   [op |-> "uninstall_server", server_name |-> server_name,
                    pre |-> fs, mcp_config |-> EmptyDict, last |-> LastCall(p)]]
    /\ pc' = [pc EXCEPT ![p] = "un_load"]
    /\ ret' = [ret EXCEPT ![p] = NoRet]
    /\ ncalls' = ncalls + 1
    /\ UNCHANGED <<fs, clock, writeOrder, hist>>
    /\ UNCHANGED builderVars

\* variant: every entry is dropped with the one named
RemoveEntry_all(mcp_config, server_name) ==
    DictSet(mcp_config, "mcpServers", EmptyDict)

\* line 265: del mcp_config["mcpServers"][server_name]
RemoveEntry(mcp_config, server_name) ==
    DictSet(mcp_config, "mcpServers", DictDel(mcp_config["mcpServers"], server_name))

\* lines 257-265 and 269-275: no file, a file that does not parse and a name
\* that is not installed give False
UninstallLoad(p) ==
    /\ pc[p] = "un_load"
    /\ LET found == /\ fs.mcp # Absent
                    /\ JsonLoads(fs.mcp).ok
                    /\ call[p].server_name
                          \in DOMAIN DictGet(JsonLoads(fs.mcp).value, "mcpServers", EmptyDict)
       IN  IF found
           THEN /\ call' = [call EXCEPT ![p].mcp_config =
                               RemoveEntry(JsonLoads(fs.mcp).value, call[p].server_name)]
                /\ pc' = [pc EXCEPT ![p] = "un_save"]
                /\ UNCHANGED ret
           ELSE /\ ret' = [ret EXCEPT ![p] = Returned([kind |-> "bool", b |-> FALSE])]
                /\ pc' = [pc EXCEPT ![p] = "done"]
                /\ UNCHANGED call
    /\ UNCHANGED <<fs, clock, ncalls, writeOrder, hist>>
    /\ UNCHANGED builderVars

\* lines 266-268
UninstallSave(p) ==
    /\ pc[p] = "un_save"
    /\ fs' = [fs EXCEPT !.mcp = JsonDumps(call[p].mcp_config)]
    /\ ret' = [ret EXCEPT ![p] = Returned([kind |-> "bool", b |-> TRUE])]
    /\ pc' = [pc EXCEPT ![p] = "done"]
    /\ UNCHANGED <<clock, call, ncalls, writeOrder, hist>>
    /\ UNCHANGED builderVars

NextInstaller ==
    \/ \E server_name \in InstallNames, config \in InstallConfigs, enabled \in BOOLEAN :
          AddBegin("p1", server_name, config, enabled)
    \/ AddLoad("p1")
    \/ AddSave("p1")
    \/ \E server_name \in InstallNames : UninstallBegin("p1", server_name)
    \/ UninstallLoad("p1")
    \/ UninstallSave("p1")
    \/ SaveFails("p1")

SpecInstaller == InitInstaller /\ [][NextInstaller]_vars

----------------------------------------------------------------------------
(* Claims about the installer *)

InstCall == call["p1"]

\* the call found a document with a mapping of servers
FoundServers(c) ==
    /\ c.pre.mcp.kind = "json"
    /\ "mcpServers" \in DOMAIN c.pre.mcp.value

ServersOf(file) == file.value["mcpServers"]

ReturnedBool(r, b) == r.status = "returned" /\ r.value = [kind |-> "bool", b |-> b]

\* C28: on an mcp.json with an mcpServers mapping, an add that returns true
\* has set the entry of its name and left every other entry and every other
\* top-level key as it was; an uninstall that returns true has removed its
\* name and nothing else; an uninstall of a name that is not installed
\* returns false and leaves the file as it was; and an uninstall of X right
\* after an add of X that did not find X gives back the mapping of before.
C28_InstallerTouchesOnlyItsEntry ==
    (pc["p1"] = "done" /\ InstCall.op \in {"_add_to_mcp_config", "uninstall_server"}
       /\ FoundServers(InstCall)) =>
        LET X == InstCall.server_name
            before == ServersOf(InstCall.pre.mcp)
        IN  /\ (InstCall.op = "_add_to_mcp_config" /\ ReturnedBool(ret["p1"], TRUE)) =>
                  /\ fs.mcp.kind = "json"
                  /\ DOMAIN ServersOf(fs.mcp) = DOMAIN before \cup {X}
                  /\ \A n \in DOMAIN before \ {X} : ServersOf(fs.mcp)[n] = before[n]
                  /\ \A f \in DOMAIN InstCall.config :
                        ServersOf(fs.mcp)[X][f] = InstCall.config[f]
                  /\ DOMAIN fs.mcp.value = DOMAIN InstCall.pre.mcp.value
                  /\ \A k \in DOMAIN fs.mcp.value \ {"mcpServers"} :
                        fs.mcp.value[k] = InstCall.pre.mcp.value[k]
            /\ (InstCall.op = "uninstall_server" /\ X \in DOMAIN before
                  /\ ReturnedBool(ret["p1"], TRUE)) =>
                  /\ fs.mcp.kind = "json"
                  /\ DOMAIN ServersOf(fs.mcp) = DOMAIN before \ {X}
                  /\ \A n \in DOMAIN before \ {X} : ServersOf(fs.mcp)[n] = before[n]
                  /\ DOMAIN fs.mcp.value = DOMAIN InstCall.pre.mcp.value
            /\ (InstCall.op = "uninstall_server" /\ X \notin DOMAIN before) =>
                  /\ ReturnedBool(ret["p1"], FALSE)
                  /\ fs = InstCall.pre
            /\ (InstCall.op = "uninstall_server" /\ ReturnedBool(ret["p1"], TRUE)
                  /\ InstCall.last.op = "_add_to_mcp_config"
                  /\ InstCall.last.server_name = X
                  /\ ReturnedBool(InstCall.last.ret, TRUE)
                  /\ FoundServers(InstCall.last)
                  /\ X \notin DOMAIN ServersOf(InstCall.last.pre.mcp)) =>
                  ServersOf(fs.mcp) = ServersOf(InstCall.last.pre.mcp)

C28_Witness ==
    /\ pc["p1"] = "done"
    /\ InstCall.op = "uninstall_server"
    /\ InstCall.server_name = "x"
    /\ ReturnedBool(ret["p1"], TRUE)
    /\ InstCall.last.op = "_add_to_mcp_config"
    /\ InstCall.last.server_name = "x"
    /\ InstCall.last.pre.mcp.kind = "json"
    /\ InstCall.last.pre.mcp.indent = 4
    /\ DOMAIN InstCall.last.pre.mcp.value = {"mcpServers", "inputs"}
    /\ DOMAIN ServersOf(InstCall.last.pre.mcp) = {"y"}
    /\ fs.mcp.kind = "json"
    /\ ServersOf(fs.mcp) = ServersOf(InstCall.last.pre.mcp)

----------------------------------------------------------------------------
(* MCPRegistryClient: a call of list_servers or get_total_count and the
   call after it, against a registry that answers by cursor.  In this
   specification built is the client's _cache, fs.cache is
   registry_cache.json, tmpl is the registry and clock counts hours. *)

CACHE_DURATION == 24
TickChoices == {12, 24}
MaxHours == 24
MaxTotal == 3

\* str() inside an f-string, of None or a string and of a bool
FStr(v) == IF v = PyNone THEN <<"None">> ELSE v.s
BoolStr(b) == IF b THEN <<"True">> ELSE <<"False">>

RECURSIVE JoinWith(_, _)
JoinWith(parts, sep) ==
    IF Len(parts) = 0 THEN << >>
    ELSE IF Len(parts) = 1 THEN parts[1]
    ELSE parts[1] \o sep \o JoinWith(Tail(parts), sep)

\* line 84
ListCacheKey(search, category, runtime, limit, fetch_all) ==
    JoinWith(<< <<"list">>, FStr(search), FStr(category), FStr(runtime),
                <<ToString(limit)>>, BoolStr(fetch_all) >>, <<"_">>)

\* line 307
CountCacheKey(search, category, runtime) ==
    JoinWith(<< <<"count">>, FStr(search), FStr(category), FStr(runtime) >>, <<"_">>)

\* the two kinds of cached and returned data
ServerList(l) == [py |-> "list", l |-> l]
Count(n) == [py |-> "int", n |-> n]

\* datetime.now().isoformat() and datetime.fromisoformat
IsoFormat(t) == [iso |-> t]
IsIsoFormat(text) == "iso" \in DOMAIN text

\* lines 385-399
IsCacheValid(cache, key, now) ==
    IF key \notin DOMAIN cache THEN FALSE
    ELSE IF "timestamp" \notin DOMAIN cache[key] THEN FALSE
    ELSE IF ~IsIsoFormat(cache[key].timestamp) THEN FALSE
    ELSE now - cache[key].timestamp.iso < CACHE_DURATION

\* variant: the entry is stored without its timestamp
CacheEntry_unstamped(data, now) == [data |-> data]

\* lines 162-165 and 353-356
CacheEntry(data, now) == [data |-> data, timestamp |-> IsoFormat(now)]

\* truth value of a cursor: None and "" are false
Truthy(cursor) == cursor # PyNone /\ cursor.s # << >>

\* lines 126-133
Unwrap(server) ==
    IF "server" \in DOMAIN server
    THEN DictSet(server.server, "_meta", DictGet(server, "_meta", EmptyDict))
    ELSE server

RECURSIVE UnwrapAll(_)
UnwrapAll(servers) ==
    IF Len(servers) = 0 THEN << >>
    ELSE <<Unwrap(servers[1])>> \o UnwrapAll(Tail(servers))

\* line 93
max_iterations(fetch_all) == IF fetch_all THEN 25 ELSE 1

FlatServer(n) == [name |-> n, description |-> "d"]
NestedServer(n) == [server |-> [name |-> n], _meta |-> [official |-> TRUE]]
BareNestedServer(n) == [server |-> [name |-> n]]

CursorOne == PyStr(<<"c1">>)
CursorTwo == PyStr(<<"c2">>)
CursorArgs == {PyNone, CursorOne, CursorTwo}

\* a response body: a JSON object, or JSON that is no object
Body(servers, next) == [servers |-> servers, metadata |-> [nextCursor |-> next]]
NotObject == [kind |-> "array"]
LastPage == Body(<< >>, PyNone)

\* the registry's answer to each cursor
RegistryChoices ==
    { [c \in CursorArgs |-> LastPage],
      [c \in CursorArgs |-> EmptyDict],
      [c \in CursorArgs |-> NotObject],
      [c \in CursorArgs |-> IF c = PyNone THEN Body(<<FlatServer("a")>>, PyNone)
                            ELSE LastPage],
      [c \in CursorArgs |-> IF c = PyNone THEN Body(<<NestedServer("a")>>, CursorOne)
                            ELSE IF c = CursorOne THEN Body(<<FlatServer("b"), BareNestedServer("c")>>,
                                                     PyStr(<< >>))
                            ELSE LastPage],
      [c \in CursorArgs |-> IF c = PyNone THEN Body(<<FlatServer("a")>>, CursorOne)
                            ELSE Body(<< >>, CursorTwo)],
      [c \in CursorArgs |-> IF c = PyNone THEN Body(<<FlatServer("a")>>, CursorOne)
                            ELSE IF c = CursorOne THEN Body(<<NestedServer("b")>>, CursorTwo)
                            ELSE Body(<<FlatServer("c")>>, CursorOne)] }

SearchChoices == {PyNone, PyStr(<<"db">>)}

\* the caches a client can have written before: nothing, or a list entry
InitCacheChoices ==
    { EmptyDict }
    \cup { (ListCacheKey(PyNone, PyNone, PyNone, 100, fetch_all)
               :> CacheEntry(ServerList(<<FlatServer("old")>>), 0)) : fetch_all \in BOOLEAN }

InitClient ==
    /\ os_name = "posix"
    /\ environ = EmptyDict
    /\ tmpl \in RegistryChoices
    /\ wsPath = <<"w">>
    /\ rootPath = <<"AIStack-MCP">>
    /\ built \in InitCacheChoices
    /\ fs = [cache |-> IF built = EmptyDict THEN Absent ELSE JsonDumps(built)]
    /\ clock = 0
    /\ pc = [p \in Procs |-> "idle"]
    /\ call = [p \in Procs |-> NoCall]
    /\ ret = [p \in Procs |-> NoRet]
    /\ ncalls = 0
    /\ writeOrder = << >>
    /\ hist = NoHist

clientVars == <<os_name, environ, tmpl, wsPath, rootPath, writeOrder, hist>>

\* what the call before this one was, what it returned and what it stored
LastClientCall(p) ==
    IF call[p].op = "none" THEN NoCall
    ELSE [op |-> call[p].op, cache_key |-> call[p].cache_key, pre |-> call[p].pre,
          began |-> call[p].began, failed |-> call[p].failed, ret |-> ret[p],
          post |-> built]

\* a first call on the client, or the call after it
CanCall(p) == pc[p] = "idle" \/ (pc[p] = "done" /\ call[p].last = NoCall)

\* lines 84-93
ListBegin(p, search, limit, use_cache, fetch_all) ==
    /\ CanCall(p)
    /\ ncalls' = ncalls + 1
    /\ LET cache_key == ListCacheKey(search, PyNone, PyNone, limit, fetch_all)
           hit == use_cache /\ IsCacheValid(built, cache_key, clock)
       IN  /\ call' = [call EXCEPT ![p] =
                          [op |-> "list_servers", cache_key |-> cache_key,
                           use_cache |-> use_cache, fetch_all |-> fetch_all,
                           began |-> clock, pre |-> built, last |-> LastClientCall(p),
                           all_servers |-> << >>, total |-> 0, cursor |-> PyNone,
                           iteration |-> 0, requests |-> 0, failed |-> FALSE]]
           /\ IF hit
              THEN /\ ret' = [ret EXCEPT ![p] = Returned(built[cache_key].data)]
                   /\ pc' = [pc EXCEPT ![p] = "done"]
              ELSE /\ ret' = [ret EXCEPT ![p] = NoRet]
                   /\ pc' = [pc EXCEPT ![p] = "list_request"]
    /\ UNCHANGED <<built, fs, clock>>
    /\ UNCHANGED clientVars

\* lines 95-159: one pass of the for loop; fails is requests.get or
\* raise_for_status raising a RequestException
ListRequest(p, fails) ==
    /\ pc[p] = "list_request"
    /\ LET c == call[p]
           data == tmpl[IF Truthy(c.cursor) THEN c.cursor ELSE PyNone]
           servers == DictGet(data, "servers", << >>)
           next_cursor == DictGet(DictGet(data, "metadata", EmptyDict), "nextCursor", PyNone)
           sent == [c EXCEPT !.requests = c.requests + 1, !.iteration = c.iteration + 1]
           got == [sent EXCEPT !.all_servers = c.all_servers \o UnwrapAll(servers)]
           exhausted == sent.iteration = max_iterations(c.fetch_all)
       IN  IF fails
           THEN IF c.cache_key \in DOMAIN built
                THEN /\ call' = [call EXCEPT ![p] = [sent EXCEPT !.failed = TRUE]]
                     /\ ret' = [ret EXCEPT ![p] = Returned(built[c.cache_key].data)]
                     /\ pc' = [pc EXCEPT ![p] = "done"]
                ELSE /\ call' = [call EXCEPT ![p] = [sent EXCEPT !.failed = TRUE]]
                     /\ pc' = [pc EXCEPT ![p] = "list_store"]
                     /\ UNCHANGED ret
           ELSE IF "kind" \in DOMAIN data
           THEN /\ call' = [call EXCEPT ![p] = sent]
                /\ ret' = [ret EXCEPT ![p] = Raised("AttributeError")]
                /\ pc' = [pc EXCEPT ![p] = "done"]
           ELSE IF Len(servers) = 0
           THEN /\ call' = [call EXCEPT ![p] = sent]
                /\ pc' = [pc EXCEPT ![p] = "list_store"]
                /\ UNCHANGED ret
           ELSE IF \/ ~c.fetch_all
                   \/ ~Truthy(next_cursor)
                   \/ Len(got.all_servers) >= 2500
           THEN /\ call' = [call EXCEPT ![p] = got]
                /\ pc' = [pc EXCEPT ![p] = "list_store"]
                /\ UNCHANGED ret
           ELSE /\ call' = [call EXCEPT ![p] = [got EXCEPT !.cursor = next_cursor]]
                /\ pc' = [pc EXCEPT ![p] = IF exhausted THEN "list_store" ELSE "list_request"]
                /\ UNCHANGED ret
    /\ UNCHANGED <<built, fs, clock, ncalls>>
    /\ UNCHANGED clientVars

\* lines 378-383
SaveCache(cache) == [cache |-> JsonDumps(cache)]

\* lines 161-168
ListStore(p) ==
    /\ pc[p] = "list_store"
    /\ built' = DictSet(built, call[p].cache_key, CacheEntry(ServerList(call[p].all_servers), clock))
    /\ fs' = SaveCache(built')
    /\ ret' = [ret EXCEPT ![p] = Returned(ServerList(call[p].all_servers))]
    /\ pc' = [pc EXCEPT ![p] = "done"]
    /\ UNCHANGED <<clock, call, ncalls>>
    /\ UNCHANGED clientVars

\* lines 307-315
CountBegin(p, search, use_cache) ==
    /\ CanCall(p)
    /\ ncalls' = ncalls + 1
    /\ LET cache_key == CountCacheKey(search, PyNone, PyNone)
           hit == use_cache /\ IsCacheValid(built, cache_key, clock)
       IN  /\ call' = [call EXCEPT ![p] =
                          [op |-> "get_total_count", cache_key |-> cache_key,
                           use_cache |-> use_cache, fetch_all |-> TRUE,
                           began |-> clock, pre |-> built, last |-> LastClientCall(p),
                           all_servers |-> << >>, total |-> 0, cursor |-> PyNone,
                           iteration |-> 0, requests |-> 0, failed |-> FALSE]]
           /\ IF hit
              THEN /\ ret' = [ret EXCEPT ![p] = Returned(built[cache_key].data)]
                   /\ pc' = [pc EXCEPT ![p] = "done"]
              ELSE /\ ret' = [ret EXCEPT ![p] = NoRet]
                   /\ pc' = [pc EXCEPT ![p] = "count_request"]
    /\ UNCHANGED <<built, fs, clock>>
    /\ UNCHANGED clientVars

\* the running total; the model stops counting at MaxTotal
AddTotal(total, n) == IF total + n > MaxTotal THEN MaxTotal ELSE total + n

\* lines 317-350: one pass of the while loop
CountRequest(p, fails) ==
    /\ pc[p] = "count_request"
    /\ LET c == call[p]
           data == tmpl[IF Truthy(c.cursor) THEN c.cursor ELSE PyNone]
           servers == DictGet(data, "servers", << >>)
           next_cursor == DictGet(DictGet(data, "metadata", EmptyDict), "nextCursor", PyNone)
       IN  IF fails
           THEN /\ call' = [call EXCEPT ![p].failed = TRUE]
                /\ pc' = [pc EXCEPT ![p] = "count_store"]
                /\ UNCHANGED ret
           ELSE IF "kind" \in DOMAIN data
           THEN /\ ret' = [ret EXCEPT ![p] = Raised("AttributeError")]
                /\ pc' = [pc EXCEPT ![p] = "done"]
                /\ UNCHANGED call
           ELSE IF ~Truthy(next_cursor) \/ Len(servers) = 0
           THEN /\ call' = [call EXCEPT ![p].total = AddTotal(c.total, Len(servers))]
                /\ pc' = [pc EXCEPT ![p] = "count_store"]
                /\ UNCHANGED ret
           ELSE /\ call' = [call EXCEPT ![p].total = AddTotal(c.total, Len(servers)),
                                        ![p].cursor = next_cursor]
                /\ UNCHANGED <<pc, ret>>
    /\ UNCHANGED <<built, fs, clock, ncalls>>
    /\ UNCHANGED clientVars

\* lines 352-359
CountStore(p) ==
    /\ pc[p] = "count_store"
    /\ built' = DictSet(built, call[p].cache_key, CacheEntry(Count(call[p].total), clock))
    /\ fs' = SaveCache(built')
    /\ ret' = [ret EXCEPT ![p] = Returned(Count(call[p].total))]
    /\ pc' = [pc EXCEPT ![p] = "done"]
    /\ UNCHANGED <<clock, call, ncalls>>
    /\ UNCHANGED clientVars

\* time passes between two calls
ClientTick ==
    /\ pc["p1"] \in {"idle", "done"}
    /\ \E hours \in TickChoices :
          /\ clock + hours <= MaxHours
          /\ clock' = clock + hours
    /\ UNCHANGED <<built, fs, pc, call, ret, ncalls>>
    /\ UNCHANGED clientVars

ClientStep(p) ==
    \/ \E fails \in BOOLEAN : ListRequest(p, fails)
    \/ ListStore(p)
    \/ \E fails \in BOOLEAN : CountRequest(p, fails)
    \/ CountStore(p)

NextClient ==
    \/ \E search \in SearchChoices, use_cache \in BOOLEAN, fetch_all \in BOOLEAN :
          ListBegin("p1", search, 100, use_cache, fetch_all)
    \/ \E search \in SearchChoices, use_cache \in BOOLEAN :
          CountBegin("p1", search, use_cache)
    \/ ClientStep("p1")
    \/ ClientTick

SpecClient == InitClient /\ [][NextClient]_vars

\* a call that was started keeps running
SpecClientLive == SpecClient /\ WF_vars(ClientStep("p1"))

----------------------------------------------------------------------------
(* Claims about the registry client *)

ClientCall == call["p1"]

ListRequestsBounded ==
    ClientCall.op = "list_servers" =>
        ClientCall.requests <= (IF ClientCall.fetch_all THEN 25 ELSE 1)

Running == pc["p1"] \in {"list_request", "list_store", "count_request", "count_store"}

\* C29: list_servers sends at most 1 request without fetch_all and at most
\* 25 with it, and every call of list_servers and of get_total_count that
\* was started comes to an end, whatever the registry answers.
C29_PaginationTerminates ==
    /\ []ListRequestsBounded
    /\ (Running ~> pc["p1"] = "done")

ListDone == pc["p1"] = "done" /\ ClientCall.op = "list_servers"

\* the call before was a list_servers with the same key that met a request
\* failure with no cache entry, less than 24 hours before this call
AfterFailedList ==
    /\ ClientCall.last.op = "list_servers"
    /\ ClientCall.last.cache_key = ClientCall.cache_key
    /\ ClientCall.last.failed
    /\ ClientCall.cache_key \notin DOMAIN ClientCall.last.pre
    /\ ClientCall.began - ClientCall.last.began < 24

\* C30: when a request of list_servers fails, a cache entry for the key,
\* expired or not, is returned and the cache stays as it was; with no entry
\* the servers fetched so far are returned and stored under the key with the
\* time of the call, and the next call with use_cache within 24 hours
\* returns the same list without a request.
C30_FailureFallsBackToCache ==
    ListDone =>
        LET key == ClientCall.cache_key
            pre == ClientCall.pre
        IN  /\ (ClientCall.failed /\ key \in DOMAIN pre) =>
                  /\ ret["p1"] = Returned(pre[key].data)
                  /\ built = pre
            /\ (ClientCall.failed /\ key \notin DOMAIN pre) =>
                  /\ ret["p1"] = Returned(ServerList(ClientCall.all_servers))
                  /\ DOMAIN built = DOMAIN pre \cup {key}
                  /\ \A k \in DOMAIN pre : built[k] = pre[k]
                  /\ built[key] = [data |-> ServerList(ClientCall.all_servers),
                                   timestamp |-> [iso |-> ClientCall.began]]
            /\ (ClientCall.use_cache /\ AfterFailedList) =>
                  /\ ClientCall.requests = 0
                  /\ ret["p1"] = ClientCall.last.ret

C30_Witness ==
    /\ ListDone
    /\ ClientCall.use_cache
    /\ AfterFailedList
    /\ ClientCall.began > ClientCall.last.began
    /\ ClientCall.requests = 0
    /\ ret["p1"].status = "returned"
    /\ Len(ret["p1"].value.l) = 2

====
